---- MODULE Spec2Model ----
(***************************************************************************)
(* Budget application (src/index.tsx): month ledgers, recurring templates, *)
(* the category registry and the event handlers that mutate them.          *)
(*                                                                         *)
(* Representation.  Strings are TLA+ strings.  Numbers are integers; the   *)
(* value NaN produced by parseFloat is the reserved integer NaN.  An id    *)
(* is kept in units of 1/RandSlots: Date.now() is now * RandSlots and      *)
(* Date.now() + Math.random() is now * RandSlots + r, 0 <= r < RandSlots,  *)
(* so r = 0 is a draw that leaves the id an integer.  An absent object     *)
(* property (undefined) is the reserved value Undefined, and null is the   *)
(* record Null.                                                            *)
(***************************************************************************)
EXTENDS Integers, Sequences, FiniteSets, TLC

\* ---------------------------------------------------------------- bounds
MaxClock == 1        \* Date.now() takes the values 0..MaxClock
RandSlots == 2       \* distinct values of Math.random()
NavRadius == 1       \* months reachable on each side of the start month
MaxOps == 2          \* data-changing operations accepted in one run
MaxUpdateOps == 3    \* the same, in the runs of the recurring expense form alone
MaxCategoryOps == 3  \* the same, in the runs of the category guard
MaxSeedOps == 1      \* the same, in the runs that start from an earlier session
MaxLookups == 2      \* category-suggestion lookups awaiting their response at once
LoadYears == 2       \* years, from that of StartDate on, the page is loaded in

\* ------------------------------------------------------- reserved values
NaN == 0 - 999999
Undefined == 0 - 1
Null == [null |-> TRUE]

\* ---------------------------------------------------------------- strings
Digits == <<"0", "1", "2", "3", "4", "5", "6", "7", "8", "9">>

IsDigit(c) == \E i \in 1..10 : Digits[i] = c

DigitValue(c) == (CHOOSE i \in 1..10 : Digits[i] = c) - 1

\* UTF-16 code unit of the characters a month key is made of
CharCode(c) == IF c = "-" THEN 45 ELSE 48 + DigitValue(c)

RECURSIVE NumberToString(_)
NumberToString(n) ==
    IF n < 10 THEN Digits[n + 1]
    ELSE NumberToString(n \div 10) \o Digits[(n % 10) + 1]

padStart(s, len, fill) == IF Len(s) >= len THEN s ELSE fill \o s

RECURSIVE DigitsToNumber(_, _)
DigitsToNumber(s, acc) ==
    IF s = "" THEN acc
    ELSE DigitsToNumber(SubSeq(s, 2, Len(s)), 10 * acc + DigitValue(SubSeq(s, 1, 1)))

\* Number(s) on a string of decimal digits; Number("") is 0
Number(s) == DigitsToNumber(s, 0)

RECURSIVE split(_, _)
split(s, sep) ==
    IF \A i \in 1..Len(s) : SubSeq(s, i, i) # sep THEN <<s>>
    ELSE LET p == CHOOSE i \in 1..Len(s) :
                     /\ SubSeq(s, i, i) = sep
                     /\ \A j \in 1..(i - 1) : SubSeq(s, j, j) # sep
         IN <<SubSeq(s, 1, p - 1)>> \o split(SubSeq(s, p + 1, Len(s)), sep)

\* a < b on strings, by code units, as the relational operators of the
\* language compare two strings
RECURSIVE StringLess(_, _)
StringLess(a, b) ==
    IF b = "" THEN FALSE
    ELSE IF a = "" THEN TRUE
    ELSE LET ca == CharCode(SubSeq(a, 1, 1))
             cb == CharCode(SubSeq(b, 1, 1))
         IN IF ca # cb THEN ca < cb
            ELSE StringLess(SubSeq(a, 2, Len(a)), SubSeq(b, 2, Len(b)))

StringGE(a, b) == ~StringLess(a, b)

\* parseFloat on the value of a number input: optional sign and digits,
\* NaN when no digit follows
parseFloat(s) ==
    LET neg == s # "" /\ SubSeq(s, 1, 1) = "-"
        body == IF neg THEN SubSeq(s, 2, Len(s)) ELSE s
    IN IF body = "" \/ \E i \in 1..Len(body) : ~IsDigit(SubSeq(body, i, i))
       THEN NaN
       ELSE IF neg THEN 0 - Number(body) ELSE Number(body)

isNaN(x) == x = NaN

\* ------------------------------------------------------------------ dates
\* new Date(year, monthIndex, 15): years 0..99 denote 1900..1999, and a
\* month index outside 0..11 carries into the year
NewDate(year, monthIndex) ==
    LET y == IF year \in 0..99 THEN 1900 + year ELSE year
    IN [year |-> y + (monthIndex \div 12), month |-> monthIndex % 12]

\* a setMonth that wraps the month index without carrying into the year
setMonthKeepingYear(date, monthIndex) ==
    [year |-> date.year, month |-> monthIndex % 12]

setMonth(date, monthIndex) ==
    [year |-> date.year + (monthIndex \div 12), month |-> monthIndex % 12]

getMonthKey(date) ==
    NumberToString(date.year) \o "-" \o padStart(NumberToString(date.month + 1), 2, "0")

\* the month key the prev-month (-1) or next-month (+1) button leads to
ShiftedMonthKey(selectedMonth, direction) ==
    LET parts == split(selectedMonth, "-")
        year == Number(parts[1])
        month == Number(parts[2])
        currentDate == NewDate(year, month - 1)
    IN getMonthKey(setMonth(currentDate, currentDate.month + direction))

\* the system date at page load
StartDate == [year |-> 2024, month |-> 11]

RECURSIVE ShiftBy(_, _)
ShiftBy(key, n) ==
    IF n = 0 THEN key
    ELSE IF n > 0 THEN ShiftBy(ShiftedMonthKey(key, 1), n - 1)
    ELSE ShiftBy(ShiftedMonthKey(key, 0 - 1), n + 1)

\* the months navigation is followed to
MonthWindow == {ShiftBy(getMonthKey(StartDate), n) : n \in (0 - NavRadius)..NavRadius}

\* ------------------------------------------------------------- sequences
\* Array.prototype.findIndex: 0-based index of the first match, -1 if none
findIndex(seq, Test(_)) ==
    IF \E i \in 1..Len(seq) : Test(seq[i])
    THEN (CHOOSE i \in 1..Len(seq) : Test(seq[i]) /\ \A j \in 1..(i - 1) : ~Test(seq[j])) - 1
    ELSE 0 - 1

some(seq, Test(_)) == \E i \in 1..Len(seq) : Test(seq[i])

filter(seq, Test(_)) == SelectSeq(seq, Test)

push(seq, item) == Append(seq, item)

Range(seq) == {seq[i] : i \in 1..Len(seq)}

\* ------------------------------------------------------------- categories
UpperCase == "ABCDEFGHIJKLMNOPQRSTUVWXYZÉ"
LowerCase == "abcdefghijklmnopqrstuvwxyzé"
BaseLetter == "abcdefghijklmnopqrstuvwxyze"

IndexIn(alphabet, c) ==
    IF \E i \in 1..Len(alphabet) : SubSeq(alphabet, i, i) = c
    THEN CHOOSE i \in 1..Len(alphabet) : SubSeq(alphabet, i, i) = c
    ELSE 0

Characters(alphabet) == {SubSeq(alphabet, i, i) : i \in 1..Len(alphabet)}

\* the lower-case form of each upper-case letter
LowerCaseOf ==
    [c \in Characters(UpperCase) |->
        SubSeq(LowerCase, IndexIn(UpperCase, c), IndexIn(UpperCase, c))]

RECURSIVE toLowerCase(_)
toLowerCase(s) ==
    IF s = "" THEN ""
    ELSE LET c == SubSeq(s, 1, 1)
         IN (IF c \in DOMAIN LowerCaseOf THEN LowerCaseOf[c] ELSE c)
                \o toLowerCase(SubSeq(s, 2, Len(s)))

RECURSIVE trimStart(_)
trimStart(s) ==
    IF s # "" /\ SubSeq(s, 1, 1) = " " THEN trimStart(SubSeq(s, 2, Len(s))) ELSE s

RECURSIVE trimEnd(_)
trimEnd(s) ==
    IF s # "" /\ SubSeq(s, Len(s), Len(s)) = " " THEN trimEnd(SubSeq(s, 1, Len(s) - 1)) ELSE s

trim(s) == trimEnd(trimStart(s))

\* collation weights of a character: primary (base letter, a space before
\* every letter), secondary (accent), tertiary (lower case before upper)
PrimaryOf ==
    [c \in Characters(LowerCase) \cup Characters(UpperCase) |->
        LET l == IndexIn(LowerCase, c)
            u == IndexIn(UpperCase, c)
            k == IF l > 0 THEN l ELSE u
        IN IndexIn(BaseLetter, SubSeq(BaseLetter, k, k))]

Primary(c) == IF c \in DOMAIN PrimaryOf THEN PrimaryOf[c] ELSE 0

Secondary(c) == IF c = "É" \/ c = "é" THEN 1 ELSE 0

Tertiary(c) == IF c \in DOMAIN LowerCaseOf THEN 1 ELSE 0

Weights(Weight(_), s) == [i \in 1..Len(s) |-> Weight(SubSeq(s, i, i))]

RECURSIVE CompareWeights(_, _)
CompareWeights(a, b) ==
    IF a = <<>> /\ b = <<>> THEN 0
    ELSE IF a = <<>> THEN 0 - 1
    ELSE IF b = <<>> THEN 1
    ELSE IF Head(a) < Head(b) THEN 0 - 1
    ELSE IF Head(a) > Head(b) THEN 1
    ELSE CompareWeights(Tail(a), Tail(b))

\* String.prototype.localeCompare: negative, zero or positive
localeCompare(a, b) ==
    LET p == CompareWeights(Weights(Primary, a), Weights(Primary, b))
        s == CompareWeights(Weights(Secondary, a), Weights(Secondary, b))
    IN IF p # 0 THEN p
       ELSE IF s # 0 THEN s
       ELSE CompareWeights(Weights(Tertiary, a), Weights(Tertiary, b))

\* insertion of one category into a list sorted by name; equal names keep
\* their order (the sort is stable)
RECURSIVE InsertSorted(_, _)
InsertSorted(sorted, c) ==
    IF sorted = <<>> THEN <<c>>
    ELSE IF localeCompare(c.name, Head(sorted).name) < 0 THEN <<c>> \o sorted
    ELSE <<Head(sorted)>> \o InsertSorted(Tail(sorted), c)

RECURSIVE sortCategories(_)
sortCategories(categories) ==
    IF categories = <<>> THEN <<>>
    ELSE InsertSorted(sortCategories(SubSeq(categories, 1, Len(categories) - 1)),
                      categories[Len(categories)])

DefaultCategories == <<
    [name |-> "Animaux", color |-> "#10b981"], [name |-> "Assurance", color |-> "#06b6d4"],
    [name |-> "Cadeaux et association caritative", color |-> "#8b5cf6"],
    [name |-> "Enfants", color |-> "#d946ef"],
    [name |-> "Épargne ou investissements", color |-> "#f97316"],
    [name |-> "Logement", color |-> "#ef4444"], [name |-> "Loisirs", color |-> "#ec4899"],
    [name |-> "Prêts", color |-> "#84cc16"], [name |-> "Repas", color |-> "#eab308"],
    [name |-> "Soins personnels", color |-> "#6366f1"], [name |-> "Taxes", color |-> "#78716c"],
    [name |-> "Transport", color |-> "#64748b"] >>

\* ------------------------------------------------------------ form input
DateTexts == {"", "2024-12-05"}
NameTexts == {"", " ", "repas", " Taxes "}
TransactionTypes == {"expense", "income"}

\* the fillings of a description / amount pair that are submitted
FormFillings ==
    { [description |-> "",     amount |-> "12"],
      [description |-> "Rent", amount |-> ""],
      [description |-> "Rent", amount |-> "12"],
      [description |-> "Gym",  amount |-> "-5"] }

\* the draws of Math.random() within one handler: call k (from 0) returns
\* (a + k * d) % RandSlots
RandomStreams == [a : 0..(RandSlots - 1), d : 0..1]

random(stream, k) == (stream.a + k * stream.d) % RandSlots

\* ------------------------------------------------------------------ state
VARIABLES
    globalState,    \* categories, recurringIncomes, recurringExpenses
    uiState,        \* selected month, open modals, items being edited
    monthlyData,    \* month key -> ledger
    monthKeys,      \* Object.keys(monthlyData): the month keys, in insertion order
    localStorage,   \* the four persisted blobs
    isInitialized,  \* initializeState has run
    transactionCategory, \* the <select> of the transaction form, when it is rendered
    pendingLookups, \* category-suggestion lookups awaiting their response
    now,            \* the value Date.now() returned when it was last read
    opsLeft,        \* data-changing operations the run may still accept
    last            \* the last event handled

vars == <<globalState, uiState, monthlyData, monthKeys, localStorage, isInitialized,
          transactionCategory, pendingLookups, now, opsLeft, last>>

\* Date.now() never runs backwards: a read returns the value of the last
\* read or a later one
ClockReadings == now..MaxClock

\* the readings a handler may get: it reads the clock only on some paths
Readings(readsClock) == IF readsClock THEN ClockReadings ELSE {now}

\* the clock reading t as an id
DateNow(t) == t * RandSlots

\* parseInt(String(id), 10): the integer part of an id
parseInt(id) == (id \div RandSlots) * RandSlots

\* --------------------------------------------------------- local storage
Absent == [kind |-> "absent"]
Corrupt == [kind |-> "corrupt"]
Json(value) == [kind |-> "json", value |-> value]

\* JSON has no NaN: JSON.stringify writes it as null
NullNumber == 0 - 999998

StringifyItem(item) ==
    [f \in DOMAIN item |->
        IF f = "amount" /\ item[f] = NaN THEN NullNumber ELSE item[f]]

StringifyList(list) == [i \in 1..Len(list) |-> StringifyItem(list[i])]

StringifyLedger(ledger) == [f \in DOMAIN ledger |-> StringifyList(ledger[f])]

StringifyMonthlyData(md) == [k \in DOMAIN md |-> StringifyLedger(md[k])]

saveDataToLocalStorage(md, gs) ==
    [monthlyData       |-> Json(StringifyMonthlyData(md)),
     recurringIncomes  |-> Json(StringifyList(gs.recurringIncomes)),
     recurringExpenses |-> Json(StringifyList(gs.recurringExpenses)),
     categories        |-> Json(gs.categories)]

\* a load that takes an empty stored list for a missing one
loadFromStorageNonEmpty(storage, key, fallback) ==
    IF storage[key].kind = "json" /\ storage[key].value # <<>>
    THEN storage[key].value
    ELSE fallback

\* loadFromStorage(key) || fallback
loadFromStorage(storage, key, fallback) ==
    IF storage[key].kind = "json" THEN storage[key].value ELSE fallback

\* what loadFromStorage leaves in the storage: a blob that fails to parse
\* is removed
StorageAfterLoad(storage) ==
    [key \in DOMAIN storage |->
        IF storage[key].kind = "corrupt" THEN Absent ELSE storage[key]]

\* ---------------------------------------------------------------- seeding
\* a seeding that copies the templates without linking the copies to them
createMonthDataUnlinked(gs, t, stream) ==
    [realIncome |->
        [i \in 1..Len(gs.recurringIncomes) |->
            [id          |-> DateNow(t) + random(stream, i - 1),
             description |-> gs.recurringIncomes[i].description,
             amount      |-> gs.recurringIncomes[i].amount,
             isRecurring |-> TRUE,
             recurringId |-> Undefined]],
     plannedExpenses |->
        [e \in 1..Len(gs.recurringExpenses) |->
            [id          |-> DateNow(t) + random(stream, Len(gs.recurringIncomes) + e - 1),
             description |-> gs.recurringExpenses[e].description,
             amount      |-> gs.recurringExpenses[e].amount,
             category    |-> gs.recurringExpenses[e].category,
             isRecurring |-> TRUE,
             recurringId |-> Undefined]],
     realExpenses |-> <<>>]

createMonthDataFromRecurring(gs, t, stream) ==
    [realIncome |->
        [i \in 1..Len(gs.recurringIncomes) |->
            [id          |-> DateNow(t) + random(stream, i - 1),
             description |-> gs.recurringIncomes[i].description,
             amount      |-> gs.recurringIncomes[i].amount,
             isRecurring |-> TRUE,
             recurringId |-> gs.recurringIncomes[i].id]],
     plannedExpenses |->
        [e \in 1..Len(gs.recurringExpenses) |->
            [id          |-> DateNow(t) + random(stream, Len(gs.recurringIncomes) + e - 1),
             description |-> gs.recurringExpenses[e].description,
             amount      |-> gs.recurringExpenses[e].amount,
             category    |-> gs.recurringExpenses[e].category,
             isRecurring |-> TRUE,
             recurringId |-> gs.recurringExpenses[e].id]],
     realExpenses |-> <<>>]

\* createMonthDataFromRecurring reads the clock once per template
ReadsClock(gs) == gs.recurringIncomes # <<>> \/ gs.recurringExpenses # <<>>

\* a migration that copies the old expenses list behind the planned
\* expenses each time it runs
MigrateLedgerAppending(month) ==
    LET planned == IF "plannedExpenses" \in DOMAIN month THEN month["plannedExpenses"]
                   ELSE <<>>
        copied == IF "expenses" \in DOMAIN month
                  THEN [f \in DOMAIN month \cup {"plannedExpenses"} |->
                           IF f = "plannedExpenses" THEN planned \o month["expenses"]
                           ELSE month[f]]
                  ELSE month
    IN IF "realExpenses" \notin DOMAIN copied
       THEN [f \in DOMAIN copied \cup {"realExpenses"} |->
                IF f = "realExpenses" THEN <<>> ELSE copied[f]]
       ELSE copied

\* a migration that rebuilds each ledger from the three lists it knows
MigrateLedgerRebuilding(month) ==
    [realIncome      |-> IF "realIncome" \in DOMAIN month THEN month["realIncome"] ELSE <<>>,
     plannedExpenses |-> IF "plannedExpenses" \in DOMAIN month THEN month["plannedExpenses"]
                         ELSE IF "expenses" \in DOMAIN month THEN month["expenses"]
                         ELSE <<>>,
     realExpenses    |-> IF "realExpenses" \in DOMAIN month THEN month["realExpenses"]
                         ELSE <<>>]

\* the data migration of initializeState, on one restored ledger
MigrateLedger(month) ==
    LET renamed ==
            IF "expenses" \in DOMAIN month /\ "plannedExpenses" \notin DOMAIN month
            THEN [f \in (DOMAIN month \ {"expenses"}) \cup {"plannedExpenses"} |->
                     IF f = "plannedExpenses" THEN month["expenses"] ELSE month[f]]
            ELSE month
    IN IF "realExpenses" \notin DOMAIN renamed
       THEN [f \in DOMAIN renamed \cup {"realExpenses"} |->
                IF f = "realExpenses" THEN <<>> ELSE renamed[f]]
       ELSE renamed

\* Object.keys of a map of months parsed from its blob: the keys in the
\* order of the text, which a session that goes through the months forward
\* has written in month order
RECURSIVE KeysInOrder(_)
KeysInOrder(keys) ==
    IF keys = {} THEN <<>>
    ELSE LET first == CHOOSE k \in keys : \A other \in keys : ~StringLess(other, k)
         IN <<first>> \o KeysInOrder(keys \ {first})

\* an initialization that gives up loading at the first blob that fails to
\* parse: the blobs read after it take their defaults
initializeStateAborting(storage, selectedMonth, t, stream) ==
    LET Broken(keys) == \E key \in keys : storage[key].kind = "corrupt"
        Load(key, before, fallback) ==
            IF Broken(before) THEN fallback ELSE loadFromStorage(storage, key, fallback)
        gs == [recurringIncomes  |-> Load("recurringIncomes", {}, <<>>),
               recurringExpenses |-> Load("recurringExpenses", {"recurringIncomes"}, <<>>),
               categories        |-> sortCategories(
                                        Load("categories",
                                             {"recurringIncomes", "recurringExpenses"},
                                             DefaultCategories))]
        loaded == Load("monthlyData",
                       {"recurringIncomes", "recurringExpenses", "categories"}, <<>>)
        migrated == [k \in DOMAIN loaded |-> MigrateLedger(loaded[k])]
        md == IF selectedMonth \notin DOMAIN migrated
              THEN [k \in DOMAIN migrated \cup {selectedMonth} |->
                       IF k = selectedMonth THEN createMonthDataFromRecurring(gs, t, stream)
                       ELSE migrated[k]]
              ELSE migrated
    IN [globalState  |-> gs,
        monthlyData  |-> md,
        monthKeys    |-> IF selectedMonth \notin DOMAIN migrated
                         THEN push(KeysInOrder(DOMAIN migrated), selectedMonth)
                         ELSE KeysInOrder(DOMAIN migrated),
        localStorage |-> StorageAfterLoad(storage)]

\* the state initializeState builds from the storage found at page load
initializeState(storage, selectedMonth, t, stream) ==
    LET gs == [recurringIncomes  |-> loadFromStorage(storage, "recurringIncomes", <<>>),
               recurringExpenses |-> loadFromStorage(storage, "recurringExpenses", <<>>),
               categories        |-> sortCategories(
                                        loadFromStorage(storage, "categories", DefaultCategories))]
        loaded == loadFromStorage(storage, "monthlyData", <<>>)
        migrated == [k \in DOMAIN loaded |-> MigrateLedger(loaded[k])]
        md == IF selectedMonth \notin DOMAIN migrated
              THEN [k \in DOMAIN migrated \cup {selectedMonth} |->
                       IF k = selectedMonth THEN createMonthDataFromRecurring(gs, t, stream)
                       ELSE migrated[k]]
              ELSE migrated
    IN [globalState  |-> gs,
        monthlyData  |-> md,
        monthKeys    |-> IF selectedMonth \notin DOMAIN migrated
                         THEN push(KeysInOrder(DOMAIN migrated), selectedMonth)
                         ELSE KeysInOrder(DOMAIN migrated),
        localStorage |-> StorageAfterLoad(storage)]

\* the storage found at page load: a registry of two categories and nothing
\* else yet
StoredCategories == <<[name |-> "Repas", color |-> "#eab308"],
                      [name |-> "Logement", color |-> "#ef4444"]>>

InitialStorage ==
    [monthlyData       |-> Absent,
     recurringIncomes  |-> Absent,
     recurringExpenses |-> Absent,
     categories        |-> Json(StoredCategories)]

\* the storage a session of the month before left behind: one template of
\* each type, created in that month, and that month's ledger
EarlierTemplates ==
    [recurringIncomes  |-> <<[id |-> DateNow(0), description |-> "Salary", amount |-> 12]>>,
     recurringExpenses |-> <<[id |-> DateNow(0), description |-> "Rent", amount |-> 12,
                              category |-> "Logement"]>>,
     categories        |-> StoredCategories]

ReturningStorage ==
    saveDataToLocalStorage(
        ShiftedMonthKey(getMonthKey(StartDate), 0 - 1)
            :> createMonthDataFromRecurring(EarlierTemplates, 0, [a |-> 0, d |-> 1]),
        EarlierTemplates)

\* the storage a version of the page with the old ledger structure left
\* behind: the ledger of the month before holds a single expenses list
LegacyLedger ==
    [expenses |-> <<[id |-> DateNow(0) + 1, description |-> "Rent", amount |-> 12,
                     category |-> "Logement", isRecurring |-> TRUE,
                     recurringId |-> DateNow(0)]>>]

LegacyStorage ==
    [monthlyData       |-> Json(ShiftedMonthKey(getMonthKey(StartDate), 0 - 1) :> LegacyLedger),
     recurringIncomes  |-> Json(EarlierTemplates.recurringIncomes),
     recurringExpenses |-> Json(EarlierTemplates.recurringExpenses),
     categories        |-> Json(StoredCategories)]

InitialUiState ==
    [selectedMonth               |-> getMonthKey(StartDate),
     isSuggesting                |-> FALSE,
     isTransactionModalOpen      |-> FALSE,
     isRecurringModalOpen        |-> FALSE,
     isCategoryModalOpen         |-> FALSE,
     editingTransaction          |-> Null,
     editingRecurringTransaction |-> Null,
     editingRealExpense          |-> Null,
     transactionModalType        |-> "expense",
     recurringModalType          |-> "expense"]

\* the record kept of one handled event
Event(op, outcome, args) == [op |-> op, outcome |-> outcome, args |-> args]

\* the state after initializeState has run on the storage found at page load
InitFrom(storage, budget) ==
    /\ now = 0
    /\ opsLeft = budget
    /\ uiState = InitialUiState
    /\ isInitialized = TRUE
    /\ transactionCategory = <<>>
    /\ pendingLookups = 0
    /\ \E stream \in RandomStreams :
         LET st == initializeState(storage, InitialUiState.selectedMonth, now, stream)
         IN /\ globalState = st.globalState
            /\ monthlyData = st.monthlyData
            /\ monthKeys = st.monthKeys
            /\ localStorage = st.localStorage
    /\ last = Event("initializeState",
                    IF InitialUiState.selectedMonth
                          \in DOMAIN loadFromStorage(storage, "monthlyData", <<>>)
                    THEN "ok" ELSE "seeded", <<>>)

Init == InitFrom(InitialStorage, MaxOps)

\* -------------------------------------------------------------- accessors
\* monthlyData[uiState.selectedMonth]?.list || []
CurrentList(list) ==
    IF uiState.selectedMonth \in DOMAIN monthlyData
          /\ list \in DOMAIN monthlyData[uiState.selectedMonth]
    THEN monthlyData[uiState.selectedMonth][list]
    ELSE <<>>

getCurrentIncomes == CurrentList("realIncome")
getCurrentPlannedExpenses == CurrentList("plannedExpenses")
getCurrentRealExpenses == CurrentList("realExpenses")

CategoryNames(gs) == {gs.categories[i].name : i \in 1..Len(gs.categories)}

\* the values the category <select> of the two modals offers
CategoryOptions(gs) == IF gs.categories = <<>> THEN {""} ELSE CategoryNames(gs)

\* the values the category <select> of the real-expense form offers
RealExpenseCategoryOptions ==
    {""} \cup {c \in CategoryNames(globalState) :
                  some(getCurrentPlannedExpenses, LAMBDA exp : exp.category = c)}

\* updateModals: the one modal that is rendered
RenderedModal(ui) ==
    IF ui.isCategoryModalOpen THEN "category"
    ELSE IF ui.isRecurringModalOpen THEN "recurring"
    ELSE IF ui.isTransactionModalOpen THEN "transaction"
    ELSE "none"

\* updateModals, as to the <select> of the transaction form: the modal
\* container is rendered anew, so the <select> is there only when the
\* transaction modal is the rendered one, and whatever it was set to it shows
\* the category of the expense being edited, or else the first category
updateModals(ui, gs) ==
    IF RenderedModal(ui) # "transaction" THEN <<>>
    ELSE IF gs.categories = <<>> THEN <<"">>
    ELSE IF /\ ui.editingTransaction # Null
            /\ ui.editingTransaction.type = "expense"
            /\ ui.editingTransaction.category \in CategoryNames(gs)
         THEN <<ui.editingTransaction.category>>
         ELSE <<gs.categories[1].name>>

closeModal(ui) ==
    [ui EXCEPT !.isTransactionModalOpen = FALSE,
               !.isRecurringModalOpen = FALSE,
               !.isCategoryModalOpen = FALSE,
               !.editingTransaction = Null,
               !.editingRecurringTransaction = Null,
               !.isSuggesting = FALSE]

\* an operation that changes the stored data is counted
Accepted == opsLeft > 0 /\ opsLeft' = opsLeft - 1

\* ----------------------------------------------------- template propagation
IncomeFields(description, amount) == [description |-> description, amount |-> amount]

ExpenseFields(description, amount, category) ==
    [description |-> description, amount |-> amount, category |-> category]

\* Object.assign(target, fields) and { ...target, ...fields }
assign(target, fields) ==
    [f \in DOMAIN target \cup DOMAIN fields |->
        IF f \in DOMAIN fields THEN fields[f] ELSE target[f]]

\* the template list after the update of template id (UPDATE LOGIC, store)
UpdateTemplate(list, id, fields) ==
    LET index == findIndex(list, LAMBDA t : t.id = id)
    IN IF index # 0 - 1 THEN [list EXCEPT ![index + 1] = assign(@, fields)] ELSE list

\* an update that leaves the old instance and appends the updated one
UpdateInstancesAppending(list, id, fields) ==
    LET instanceIndex == findIndex(list, LAMBDA i : i.recurringId = id)
    IN IF instanceIndex # 0 - 1
       THEN push(list, assign(list[instanceIndex + 1], fields))
       ELSE list

\* one instance list after the update of template id (UPDATE LOGIC, one month)
UpdateInstances(list, id, fields) ==
    LET instanceIndex == findIndex(list, LAMBDA i : i.recurringId = id)
    IN IF instanceIndex # 0 - 1
       THEN [list EXCEPT ![instanceIndex + 1] = assign(@, fields)]
       ELSE list

ListOf(type) == IF type = "income" THEN "realIncome" ELSE "plannedExpenses"

StoreOf(type) == IF type = "income" THEN "recurringIncomes" ELSE "recurringExpenses"

\* the months a template operation at currentMonthKey applies to
IsAtOrAfter(monthKey, currentMonthKey) == StringGE(monthKey, currentMonthKey)

\* an update that reaches the selected month only
PropagateUpdateSelectedMonth(md, type, id, fields, currentMonthKey) ==
    [monthKey \in DOMAIN md |->
        IF monthKey = currentMonthKey
        THEN [md[monthKey] EXCEPT ![ListOf(type)] = UpdateInstances(@, id, fields)]
        ELSE md[monthKey]]

PropagateUpdate(md, type, id, fields, currentMonthKey) ==
    [monthKey \in DOMAIN md |->
        IF IsAtOrAfter(monthKey, currentMonthKey)
        THEN [md[monthKey] EXCEPT ![ListOf(type)] = UpdateInstances(@, id, fields)]
        ELSE md[monthKey]]

\* the months of md that Object.keys(monthlyData).forEach visits before
\* monthKey and that an operation at currentMonthKey applies to
VisitedBefore(md, monthKey, currentMonthKey) ==
    LET position == CHOOSE i \in 1..Len(monthKeys) : monthKeys[i] = monthKey
    IN {k \in DOMAIN md :
          /\ IsAtOrAfter(k, currentMonthKey)
          /\ \E i \in 1..(position - 1) : monthKeys[i] = k}

\* the position of monthKey among the months an addition applies to
CallIndex(md, monthKey, currentMonthKey) ==
    Cardinality(VisitedBefore(md, monthKey, currentMonthKey))

\* an instance that takes its own id for the link to its template
NewInstanceSelfLinked(newRecurring, id) ==
    assign(newRecurring, [id |-> id, isRecurring |-> TRUE, recurringId |-> id])

NewInstance(newRecurring, id) ==
    assign(newRecurring, [id |-> id, isRecurring |-> TRUE, recurringId |-> newRecurring.id])

PropagateAdd(md, type, newRecurring, currentMonthKey, t, stream) ==
    [monthKey \in DOMAIN md |->
        IF IsAtOrAfter(monthKey, currentMonthKey)
        THEN [md[monthKey] EXCEPT ![ListOf(type)] =
                 push(@, NewInstance(newRecurring,
                         DateNow(t) + random(stream, CallIndex(md, monthKey, currentMonthKey))))]
        ELSE md[monthKey]]

\* a deletion that reaches every month, whatever the selected one
PropagateDeleteEveryMonth(md, type, id, currentMonthKey) ==
    [monthKey \in DOMAIN md |->
        [md[monthKey] EXCEPT ![ListOf(type)] = filter(@, LAMBDA i : i.recurringId # id)]]

PropagateDelete(md, type, id, currentMonthKey) ==
    [monthKey \in DOMAIN md |->
        IF IsAtOrAfter(monthKey, currentMonthKey)
        THEN [md[monthKey] EXCEPT ![ListOf(type)] = filter(@, LAMBDA i : i.recurringId # id)]
        ELSE md[monthKey]]

DeleteTemplate(list, id) == filter(list, LAMBDA t : t.id # id)

\* the months an operation at currentMonthKey applies to whose ledger lacks
\* the list of the type: reading a method of the missing list is a TypeError
\* that ends the handler
FailingMonths(md, type, currentMonthKey) ==
    {k \in DOMAIN md : IsAtOrAfter(k, currentMonthKey) /\ ListOf(type) \notin DOMAIN md[k]}

Interrupted(md, type, currentMonthKey) == FailingMonths(md, type, currentMonthKey) # {}

\* the months the forEach of a template operation is through with when the
\* handler ends: every month, or the months visited before the first one
\* that fails (and the months before currentMonthKey, which it passes over)
Reached(md, type, currentMonthKey) ==
    LET failing == FailingMonths(md, type, currentMonthKey)
    IN IF failing = {} THEN DOMAIN md
       ELSE LET first == CHOOSE k \in failing :
                            \A other \in failing :
                                VisitedBefore(md, k, currentMonthKey)
                                    \subseteq VisitedBefore(md, other, currentMonthKey)
            IN {k \in DOMAIN md : ~IsAtOrAfter(k, currentMonthKey)}
                  \cup VisitedBefore(md, first, currentMonthKey)

Restrict(md, keys) == [k \in keys |-> md[k]]

\* md with the months reached replaced by their propagated ledgers
Partial(md, propagated, reached) ==
    [k \in DOMAIN md |-> IF k \in reached THEN propagated[k] ELSE md[k]]

\* ---------------------------------------------------------- category guard
\* a guard that looks at the planned expenses of the selected month only
isUsedInPlannedSelectedMonth(md, categoryName) ==
    some(md[uiState.selectedMonth].plannedExpenses, LAMBDA e : e.category = categoryName)

isUsedInPlanned(md, categoryName) ==
    \E k \in DOMAIN md : some(md[k].plannedExpenses, LAMBDA e : e.category = categoryName)

isUsedInReal(md, categoryName) ==
    \E k \in DOMAIN md : some(md[k].realExpenses, LAMBDA e : e.linkedCategory = categoryName)

isUsedInRecurring(gs, categoryName) ==
    some(gs.recurringExpenses, LAMBDA e : e.category = categoryName)

\* a report that stops at the first kind of use found
usageInfoFirstMatch(md, gs, categoryName) ==
    IF isUsedInPlanned(md, categoryName) THEN <<"dépenses planifiées">>
    ELSE IF isUsedInReal(md, categoryName) THEN <<"dépenses réelles">>
    ELSE IF isUsedInRecurring(gs, categoryName) THEN <<"dépenses récurrentes">>
    ELSE <<>>

usageInfo(md, gs, categoryName) ==
    (IF isUsedInPlanned(md, categoryName) THEN <<"dépenses planifiées">> ELSE <<>>)
    \o (IF isUsedInReal(md, categoryName) THEN <<"dépenses réelles">> ELSE <<>>)
    \o (IF isUsedInRecurring(gs, categoryName) THEN <<"dépenses récurrentes">> ELSE <<>>)

IsCategoryInUse(md, gs, categoryName) ==
    isUsedInPlanned(md, categoryName) \/ isUsedInRecurring(gs, categoryName)
        \/ isUsedInReal(md, categoryName)

\* ---------------------------------------------------------------- actions
\* a handler that only changes what is shown leaves no record
Idle == Event("none", "ok", <<>>)

\* click on [data-action=open-transaction-modal]
OpenTransactionModal ==
    /\ uiState' = [uiState EXCEPT !.isTransactionModalOpen = TRUE,
                                  !.transactionModalType = "expense"]
    /\ last' = Idle
    /\ transactionCategory' = updateModals(uiState', globalState)
    /\ UNCHANGED <<globalState, monthlyData, monthKeys, localStorage, isInitialized,
                 pendingLookups, now, opsLeft>>

\* click on [data-action=open-recurring-modal]
OpenRecurringModal ==
    /\ uiState' = [uiState EXCEPT !.isRecurringModalOpen = TRUE,
                                  !.recurringModalType = "expense",
                                  !.editingRecurringTransaction = Null]
    /\ last' = Idle
    /\ transactionCategory' = updateModals(uiState', globalState)
    /\ UNCHANGED <<globalState, monthlyData, monthKeys, localStorage, isInitialized,
                 pendingLookups, now, opsLeft>>

\* click on [data-action=open-category-modal]
OpenCategoryModal ==
    /\ uiState' = [uiState EXCEPT !.isCategoryModalOpen = TRUE]
    /\ last' = Idle
    /\ transactionCategory' = updateModals(uiState', globalState)
    /\ UNCHANGED <<globalState, monthlyData, monthKeys, localStorage, isInitialized,
                 pendingLookups, now, opsLeft>>

\* click on [data-action=close-modal] or on the backdrop of the modal
CloseModal ==
    /\ RenderedModal(uiState) # "none"
    /\ uiState' = closeModal(uiState)
    /\ last' = Idle
    /\ transactionCategory' = updateModals(uiState', globalState)
    /\ UNCHANGED <<globalState, monthlyData, monthKeys, localStorage, isInitialized,
                 pendingLookups, now, opsLeft>>

\* click on [data-action=cancel-recurring-edit]
CancelRecurringEdit ==
    /\ RenderedModal(uiState) = "recurring"
    /\ uiState.editingRecurringTransaction # Null
    /\ uiState' = [uiState EXCEPT !.editingRecurringTransaction = Null]
    /\ last' = Idle
    /\ transactionCategory' = updateModals(uiState', globalState)
    /\ UNCHANGED <<globalState, monthlyData, monthKeys, localStorage, isInitialized,
                 pendingLookups, now, opsLeft>>

\* click on [data-action=cancel-real-expense-edit]
CancelRealExpenseEdit ==
    /\ uiState.editingRealExpense # Null
    /\ uiState' = [uiState EXCEPT !.editingRealExpense = Null]
    /\ last' = Idle
    /\ UNCHANGED <<globalState, monthlyData, monthKeys, localStorage, isInitialized,
                 transactionCategory, pendingLookups, now, opsLeft>>

\* a navigation that seeds the month it leads to each time it is reached
NavigateMonthReseeding(direction, stream) ==
    LET newMonthKey == ShiftedMonthKey(uiState.selectedMonth, direction)
    IN /\ newMonthKey \in MonthWindow
       /\ \E t \in Readings(ReadsClock(globalState)) :
            /\ now' = t
            /\ monthlyData' =
                 [k \in DOMAIN monthlyData \cup {newMonthKey} |->
                     IF k = newMonthKey
                     THEN createMonthDataFromRecurring(globalState, t, stream)
                     ELSE monthlyData[k]]
       /\ localStorage' = saveDataToLocalStorage(monthlyData', globalState)
       /\ monthKeys' = IF newMonthKey \notin DOMAIN monthlyData
                       THEN push(monthKeys, newMonthKey) ELSE monthKeys
       /\ uiState' = [uiState EXCEPT !.selectedMonth = newMonthKey]
       /\ last' = Event("navigate", "seeded", <<>>)
       /\ UNCHANGED <<globalState, isInitialized, transactionCategory, pendingLookups,
                      opsLeft>>

\* click on [data-action=prev-month] (-1) or [data-action=next-month] (+1),
\* followed as long as it leads to a month of the window
NavigateWithin(window, direction, stream) ==
    LET newMonthKey == ShiftedMonthKey(uiState.selectedMonth, direction)
        seeded == newMonthKey \notin DOMAIN monthlyData
    IN /\ newMonthKey \in window
       /\ \E t \in Readings(seeded /\ ReadsClock(globalState)) :
            /\ now' = t
            /\ monthlyData' =
                 IF seeded
                 THEN [k \in DOMAIN monthlyData \cup {newMonthKey} |->
                          IF k = newMonthKey
                          THEN createMonthDataFromRecurring(globalState, t, stream)
                          ELSE monthlyData[k]]
                 ELSE monthlyData
       /\ localStorage' =
            IF seeded THEN saveDataToLocalStorage(monthlyData', globalState)
            ELSE localStorage
       /\ monthKeys' = IF seeded THEN push(monthKeys, newMonthKey) ELSE monthKeys
       /\ uiState' = [uiState EXCEPT !.selectedMonth = newMonthKey]
       /\ last' = Event("navigate", IF seeded THEN "seeded" ELSE "ok", <<>>)
       /\ UNCHANGED <<globalState, isInitialized, transactionCategory, pendingLookups, opsLeft>>

NavigateMonth(direction, stream) == NavigateWithin(MonthWindow, direction, stream)

\* click on .transaction-type-btn
TransactionTypeBtn(type) ==
    /\ RenderedModal(uiState) = "transaction"
    /\ uiState.editingTransaction = Null
    /\ uiState' = [uiState EXCEPT !.transactionModalType = type]
    /\ last' = Idle
    /\ transactionCategory' = updateModals(uiState', globalState)
    /\ UNCHANGED <<globalState, monthlyData, monthKeys, localStorage, isInitialized,
                 pendingLookups, now, opsLeft>>

\* click on .recurring-type-btn
RecurringTypeBtn(type) ==
    /\ RenderedModal(uiState) = "recurring"
    /\ uiState' = [uiState EXCEPT !.recurringModalType = type,
                                  !.editingRecurringTransaction = Null]
    /\ last' = Idle
    /\ transactionCategory' = updateModals(uiState', globalState)
    /\ UNCHANGED <<globalState, monthlyData, monthKeys, localStorage, isInitialized,
                 pendingLookups, now, opsLeft>>

\* click on .edit-expense-btn of a planned expense of the selected month
EditExpenseBtn(item) ==
    /\ item \in Range(getCurrentPlannedExpenses)
    /\ ~item.isRecurring
    /\ LET id == parseInt(item.id)
           index == findIndex(getCurrentPlannedExpenses, LAMBDA exp : exp.id = id)
       IN IF index # 0 - 1
          THEN /\ uiState' =
                    [uiState EXCEPT
                        !.editingTransaction =
                            assign(getCurrentPlannedExpenses[index + 1], [type |-> "expense"]),
                        !.isTransactionModalOpen = TRUE]
               /\ transactionCategory' = updateModals(uiState', globalState)
          ELSE UNCHANGED <<uiState, transactionCategory>>
    /\ last' = Idle
    /\ UNCHANGED <<globalState, monthlyData, monthKeys, localStorage, isInitialized,
                 pendingLookups, now, opsLeft>>

\* click on .delete-expense-btn of a planned expense of the selected month
DeleteExpenseBtn(item, confirmed) ==
    /\ item \in Range(getCurrentPlannedExpenses)
    /\ ~item.isRecurring
    /\ LET id == parseInt(item.id)
       IN IF confirmed
          THEN /\ monthlyData' =
                    [monthlyData EXCEPT ![uiState.selectedMonth].plannedExpenses =
                        filter(@, LAMBDA exp : exp.id # id)]
               /\ localStorage' = saveDataToLocalStorage(monthlyData', globalState)
               /\ Accepted
          ELSE UNCHANGED <<monthlyData, localStorage, opsLeft>>
    /\ last' = Event("delete-expense-btn", IF confirmed THEN "ok" ELSE "cancelled", <<>>)
    /\ UNCHANGED <<globalState, uiState, monthKeys, isInitialized, transactionCategory,
                 pendingLookups, now>>

\* click on .edit-income-btn of an income of the selected month
EditIncomeBtn(item) ==
    /\ item \in Range(getCurrentIncomes)
    /\ ~item.isRecurring
    /\ LET id == parseInt(item.id)
           index == findIndex(getCurrentIncomes, LAMBDA inc : inc.id = id)
       IN IF index # 0 - 1
          THEN /\ uiState' =
                    [uiState EXCEPT
                        !.editingTransaction =
                            assign(getCurrentIncomes[index + 1], [type |-> "income"]),
                        !.isTransactionModalOpen = TRUE]
               /\ transactionCategory' = updateModals(uiState', globalState)
          ELSE UNCHANGED <<uiState, transactionCategory>>
    /\ last' = Idle
    /\ UNCHANGED <<globalState, monthlyData, monthKeys, localStorage, isInitialized,
                 pendingLookups, now, opsLeft>>

\* click on .delete-income-btn of an income of the selected month
DeleteIncomeBtn(item) ==
    /\ item \in Range(getCurrentIncomes)
    /\ ~item.isRecurring
    /\ LET id == parseInt(item.id)
       IN monthlyData' =
            [monthlyData EXCEPT ![uiState.selectedMonth].realIncome =
                filter(@, LAMBDA inc : inc.id # id)]
    /\ localStorage' = saveDataToLocalStorage(monthlyData', globalState)
    /\ Accepted
    /\ last' = Event("delete-income-btn", "ok", <<>>)
    /\ UNCHANGED <<globalState, uiState, monthKeys, isInitialized, transactionCategory,
                 pendingLookups, now>>

\* submit of #transaction-form
handleTransactionFormSubmit(filling, category) ==
    /\ RenderedModal(uiState) = "transaction"
    /\ category \in CategoryOptions(globalState)
    /\ LET description == filling.description
           amount == parseFloat(filling.amount)
           editing == uiState.editingTransaction
           type == IF editing # Null THEN editing.type ELSE uiState.transactionModalType
           selected == uiState.selectedMonth
       IN \E t \in Readings(editing = Null) :
          /\ Accepted
          /\ now' = t
          /\ monthlyData' =
               IF type = "expense"
               THEN IF editing # Null
                    THEN LET index == findIndex(getCurrentPlannedExpenses,
                                                LAMBDA exp : exp.id = editing.id)
                         IN IF index # 0 - 1
                            THEN [monthlyData EXCEPT ![selected].plannedExpenses[index + 1] =
                                    assign(@, ExpenseFields(description, amount, category))]
                            ELSE monthlyData
                    ELSE [monthlyData EXCEPT ![selected].plannedExpenses =
                            push(@, [id |-> DateNow(t), description |-> description,
                                     amount |-> amount, category |-> category,
                                     isRecurring |-> FALSE, recurringId |-> Undefined])]
               ELSE IF editing # Null
                    THEN LET index == findIndex(getCurrentIncomes,
                                                LAMBDA inc : inc.id = editing.id)
                         IN IF index # 0 - 1
                            THEN [monthlyData EXCEPT ![selected].realIncome[index + 1] =
                                    assign(@, IncomeFields(description, amount))]
                            ELSE monthlyData
                    ELSE [monthlyData EXCEPT ![selected].realIncome =
                            push(@, [id |-> DateNow(t), description |-> description,
                                     amount |-> amount,
                                     isRecurring |-> FALSE, recurringId |-> Undefined])]
          /\ last' = Event("handleTransactionFormSubmit", "ok",
                           [type |-> type, editing |-> editing # Null])
    /\ uiState' = closeModal(uiState)
    /\ localStorage' = saveDataToLocalStorage(monthlyData', globalState)
    /\ transactionCategory' = updateModals(uiState', globalState)
    /\ UNCHANGED <<globalState, monthKeys, isInitialized, pendingLookups>>

\* submit of #add-real-expense-form
handleAddRealExpense(filling, date, linkedCategory) ==
    LET description == filling.description
        amount == parseFloat(filling.amount)
        editing == uiState.editingRealExpense
        selected == uiState.selectedMonth
        fields == [description |-> description, amount |-> amount,
                   date |-> date, linkedCategory |-> linkedCategory]
        args == [editing |-> editing # Null]
    IN /\ linkedCategory \in RealExpenseCategoryOptions
       /\ UNCHANGED <<monthKeys, isInitialized, transactionCategory, pendingLookups>>
       /\ IF description = "" \/ isNaN(amount) \/ date = "" \/ linkedCategory = ""
          THEN /\ last' = Event("handleAddRealExpense", "rejected", args)
               /\ UNCHANGED <<globalState, uiState, monthlyData, localStorage, now, opsLeft>>
          ELSE \E t \in Readings(editing = Null) :
               /\ Accepted
               /\ now' = t
               /\ monthlyData' =
                    IF editing # Null
                    THEN LET index == findIndex(getCurrentRealExpenses,
                                                LAMBDA exp : exp.id = editing.id)
                         IN IF index # 0 - 1
                            THEN [monthlyData EXCEPT ![selected].realExpenses[index + 1] =
                                    assign(@, fields)]
                            ELSE monthlyData
                    ELSE [monthlyData EXCEPT ![selected].realExpenses =
                            push(@, assign([id |-> DateNow(t)], fields))]
               /\ localStorage' = saveDataToLocalStorage(monthlyData', globalState)
               /\ uiState' = [uiState EXCEPT !.editingRealExpense = Null]
               /\ last' = Event("handleAddRealExpense", "ok",
                                [editing |-> editing # Null, fields |-> fields])
               /\ UNCHANGED globalState

\* click on .edit-real-expense-btn of a real expense of the selected month
EditRealExpenseBtn(item) ==
    /\ item \in Range(getCurrentRealExpenses)
    /\ LET id == parseInt(item.id)
           index == findIndex(getCurrentRealExpenses, LAMBDA exp : exp.id = id)
       IN uiState' =
            IF index # 0 - 1
            THEN [uiState EXCEPT !.editingRealExpense = getCurrentRealExpenses[index + 1]]
            ELSE uiState
    /\ last' = Idle
    /\ UNCHANGED <<globalState, monthlyData, monthKeys, localStorage, isInitialized,
                 transactionCategory, pendingLookups, now, opsLeft>>

\* click on .delete-real-expense-btn: handleDeleteRealExpense after confirm
DeleteRealExpenseBtn(item, confirmed) ==
    /\ item \in Range(getCurrentRealExpenses)
    /\ LET id == parseInt(item.id)
       IN IF confirmed
          THEN /\ monthlyData' =
                    [monthlyData EXCEPT ![uiState.selectedMonth].realExpenses =
                        filter(@, LAMBDA exp : exp.id # id)]
               /\ localStorage' = saveDataToLocalStorage(monthlyData', globalState)
               /\ Accepted
          ELSE UNCHANGED <<monthlyData, localStorage, opsLeft>>
    /\ last' = Event("delete-real-expense-btn", IF confirmed THEN "ok" ELSE "cancelled", <<>>)
    /\ UNCHANGED <<globalState, uiState, monthKeys, isInitialized, transactionCategory,
                 pendingLookups, now>>

\* an addition that stores the name before it is checked
handleAddCategoryUnchecked(nameText) ==
    /\ RenderedModal(uiState) = "category"
    /\ LET name == trim(nameText)
           valid == name # "" /\ ~some(globalState.categories,
                                       LAMBDA c : toLowerCase(c.name) = toLowerCase(name))
       IN /\ globalState' =
               [globalState EXCEPT !.categories =
                   sortCategories(push(@, [name |-> name, color |-> "#94a3b8"]))]
          /\ localStorage' = saveDataToLocalStorage(monthlyData, globalState')
          /\ last' = Event("handleAddCategory", IF valid THEN "ok" ELSE "rejected",
                           [name |-> name])
          /\ IF valid
             THEN /\ Accepted
                  /\ transactionCategory' = updateModals(uiState, globalState')
             ELSE UNCHANGED <<opsLeft, transactionCategory>>
    /\ UNCHANGED <<uiState, monthlyData, monthKeys, isInitialized, pendingLookups, now>>

\* an addition that takes two names for the same one only when they are
\* written alike
handleAddCategoryCaseSensitive(nameText) ==
    /\ RenderedModal(uiState) = "category"
    /\ LET name == trim(nameText)
       IN IF name # "" /\ ~some(globalState.categories, LAMBDA c : c.name = name)
          THEN /\ globalState' =
                    [globalState EXCEPT !.categories =
                        sortCategories(push(@, [name |-> name, color |-> "#94a3b8"]))]
               /\ localStorage' = saveDataToLocalStorage(monthlyData, globalState')
               /\ last' = Event("handleAddCategory", "ok", [name |-> name])
               /\ transactionCategory' = updateModals(uiState, globalState')
               /\ Accepted
          ELSE /\ last' = Event("handleAddCategory", "rejected", [name |-> name])
               /\ UNCHANGED <<globalState, localStorage, transactionCategory, opsLeft>>
    /\ UNCHANGED <<uiState, monthlyData, monthKeys, isInitialized, pendingLookups, now>>

\* submit of #add-category-form
handleAddCategory(nameText) ==
    /\ RenderedModal(uiState) = "category"
    /\ LET name == trim(nameText)
       IN IF name # "" /\ ~some(globalState.categories,
                                LAMBDA c : toLowerCase(c.name) = toLowerCase(name))
          THEN /\ globalState' =
                    [globalState EXCEPT !.categories =
                        sortCategories(push(@, [name |-> name, color |-> "#94a3b8"]))]
               /\ localStorage' = saveDataToLocalStorage(monthlyData, globalState')
               /\ last' = Event("handleAddCategory", "ok", [name |-> name])
               /\ transactionCategory' = updateModals(uiState, globalState')
               /\ Accepted
          ELSE /\ last' = Event("handleAddCategory", "rejected", [name |-> name])
               /\ UNCHANGED <<globalState, localStorage, transactionCategory, opsLeft>>
    /\ UNCHANGED <<uiState, monthlyData, monthKeys, isInitialized, pendingLookups, now>>

\* a deletion that does not look for the uses of the category
handleDeleteCategoryUnguarded(categoryName, confirmed) ==
    /\ RenderedModal(uiState) = "category"
    /\ categoryName \in CategoryNames(globalState)
    /\ IF confirmed
       THEN /\ globalState' =
                 [globalState EXCEPT !.categories =
                     filter(@, LAMBDA c : c.name # categoryName)]
            /\ localStorage' = saveDataToLocalStorage(monthlyData, globalState')
            /\ transactionCategory' = updateModals(uiState, globalState')
            /\ last' = Event("handleDeleteCategory", "ok",
                             [categoryName |-> categoryName, usageInfo |-> <<>>])
            /\ Accepted
       ELSE /\ last' = Event("handleDeleteCategory", "cancelled",
                             [categoryName |-> categoryName, usageInfo |-> <<>>])
            /\ UNCHANGED <<globalState, localStorage, transactionCategory, opsLeft>>
    /\ UNCHANGED <<uiState, monthlyData, monthKeys, isInitialized, pendingLookups, now>>

\* click on .delete-category-btn: handleDeleteCategory
handleDeleteCategory(categoryName, confirmed) ==
    /\ RenderedModal(uiState) = "category"
    /\ categoryName \in CategoryNames(globalState)
    /\ IF IsCategoryInUse(monthlyData, globalState, categoryName)
       THEN /\ last' = Event("handleDeleteCategory", "rejected",
                             [categoryName |-> categoryName,
                              usageInfo |-> usageInfo(monthlyData, globalState, categoryName)])
            /\ UNCHANGED <<globalState, localStorage, transactionCategory, opsLeft>>
       ELSE IF confirmed
       THEN /\ globalState' =
                 [globalState EXCEPT !.categories =
                     filter(@, LAMBDA c : c.name # categoryName)]
            /\ localStorage' = saveDataToLocalStorage(monthlyData, globalState')
            /\ transactionCategory' = updateModals(uiState, globalState')
            /\ last' = Event("handleDeleteCategory", "ok",
                             [categoryName |-> categoryName, usageInfo |-> <<>>])
            /\ Accepted
       ELSE /\ last' = Event("handleDeleteCategory", "cancelled",
                             [categoryName |-> categoryName, usageInfo |-> <<>>])
            /\ UNCHANGED <<globalState, localStorage, transactionCategory, opsLeft>>
    /\ UNCHANGED <<uiState, monthlyData, monthKeys, isInitialized, pendingLookups, now>>

\* click on .edit-recurring-btn of a template listed in the recurring modal
EditRecurringBtn(item, type) ==
    /\ RenderedModal(uiState) = "recurring"
    /\ item \in Range(globalState[StoreOf(type)])
    /\ LET id == parseInt(item.id)
           index == findIndex(globalState[StoreOf(type)], LAMBDA t : t.id = id)
       IN IF index # 0 - 1
          THEN /\ uiState' =
                    [uiState EXCEPT
                        !.editingRecurringTransaction =
                            assign(globalState[StoreOf(type)][index + 1], [type |-> type]),
                        !.recurringModalType = type]
               /\ transactionCategory' = updateModals(uiState', globalState)
          ELSE UNCHANGED <<uiState, transactionCategory>>
    /\ last' = Idle
    /\ UNCHANGED <<globalState, monthlyData, monthKeys, localStorage, isInitialized,
                 pendingLookups, now, opsLeft>>

\* click on .delete-recurring-btn: handleDeleteRecurring after confirm
DeleteRecurringBtn(item, type, confirmed) ==
    /\ RenderedModal(uiState) = "recurring"
    /\ item \in Range(globalState[StoreOf(type)])
    /\ LET id == parseInt(item.id)
           currentMonthKey == uiState.selectedMonth
           args == [type |-> type, id |-> id]
           reached == Reached(monthlyData, type, currentMonthKey)
           threw == Interrupted(monthlyData, type, currentMonthKey)
       IN IF confirmed
          THEN /\ monthlyData' =
                    Partial(monthlyData,
                            PropagateDelete(Restrict(monthlyData, reached), type, id,
                                            currentMonthKey),
                            reached)
               /\ IF threw
                  THEN /\ last' = Event("handleDeleteRecurring", "threw", args)
                       /\ UNCHANGED <<globalState, localStorage>>
                  ELSE /\ globalState' =
                            [globalState EXCEPT ![StoreOf(type)] = DeleteTemplate(@, id)]
                       /\ localStorage' = saveDataToLocalStorage(monthlyData', globalState')
                       /\ last' = Event("handleDeleteRecurring", "ok", args)
               /\ Accepted
          ELSE /\ last' = Event("handleDeleteRecurring", "cancelled", args)
               /\ UNCHANGED <<globalState, monthlyData, localStorage, opsLeft>>
    /\ UNCHANGED <<uiState, monthKeys, isInitialized, transactionCategory, pendingLookups, now>>

\* submit of #recurring-form
handleRecurringFormSubmit(filling, categoryValue, stream) ==
    /\ RenderedModal(uiState) = "recurring"
    /\ UNCHANGED <<monthKeys, isInitialized, pendingLookups>>
    /\ categoryValue \in CategoryOptions(globalState)
    /\ LET description == filling.description
           amount == parseFloat(filling.amount)
           editing == uiState.editingRecurringTransaction
           isEditing == editing # Null
           type == IF isEditing THEN editing.type ELSE uiState.recurringModalType
           currentMonthKey == uiState.selectedMonth
           fields == IF type = "income" THEN IncomeFields(description, amount)
                     ELSE ExpenseFields(description, amount, categoryValue)
           reached == Reached(monthlyData, type, currentMonthKey)
           threw == Interrupted(monthlyData, type, currentMonthKey)
       IN IF description = "" \/ isNaN(amount)
          THEN /\ last' = Event("handleRecurringFormSubmit", "rejected", [type |-> type])
               /\ UNCHANGED <<globalState, uiState, monthlyData, localStorage,
                               transactionCategory, opsLeft, now>>
          ELSE \E t \in Readings(~isEditing) :
               /\ Accepted
               /\ now' = t
               /\ IF isEditing
                  THEN /\ globalState' =
                            [globalState EXCEPT ![StoreOf(type)] =
                                UpdateTemplate(@, editing.id, fields)]
                       /\ monthlyData' =
                            Partial(monthlyData,
                                    PropagateUpdate(Restrict(monthlyData, reached), type,
                                                    editing.id, fields, currentMonthKey),
                                    reached)
                       /\ last' = Event("handleRecurringFormSubmit",
                                        IF threw THEN "threw" ELSE "updated",
                                        [type |-> type, id |-> editing.id,
                                         fields |-> fields])
                  ELSE LET newRecurring == assign([id |-> DateNow(t)], fields)
                       IN /\ globalState' =
                               [globalState EXCEPT ![StoreOf(type)] = push(@, newRecurring)]
                          /\ monthlyData' =
                               Partial(monthlyData,
                                       PropagateAdd(Restrict(monthlyData, reached), type,
                                                    newRecurring, currentMonthKey, t, stream),
                                       reached)
                          /\ last' = Event("handleRecurringFormSubmit",
                                           IF threw THEN "threw" ELSE "added",
                                           [type |-> type, id |-> newRecurring.id])
               /\ IF threw
                  THEN UNCHANGED <<localStorage, uiState, transactionCategory>>
                  ELSE /\ localStorage' =
                            saveDataToLocalStorage(monthlyData', globalState')
                       /\ uiState' =
                            [uiState EXCEPT !.editingRecurringTransaction = Null]
                       /\ transactionCategory' = updateModals(uiState', globalState')

\* ------------------------------------------------------ category suggestion
DescriptionTexts == {"", " ", "Pizza"}

\* the texts the lookup answers with
ResponseTexts == {"Repas", " Logement ", "Voyage"}

\* the category <select> and the suggestion button are shown in the
\* transaction modal of an expense
ShowsCategoryField(ui) ==
    /\ RenderedModal(ui) = "transaction"
    /\ (IF ui.editingTransaction # Null THEN ui.editingTransaction.type
        ELSE ui.transactionModalType) = "expense"

\* click on #suggest-category-btn: handleSuggestCategory up to its await
handleSuggestCategory(descriptionText) ==
    /\ ShowsCategoryField(uiState)
    /\ LET description == trim(descriptionText)
       IN IF description = ""
          THEN /\ last' = Event("handleSuggestCategory", "rejected", <<>>)
               /\ UNCHANGED <<uiState, transactionCategory, pendingLookups>>
          ELSE /\ pendingLookups < MaxLookups
               /\ uiState' = [uiState EXCEPT !.isSuggesting = TRUE]
               /\ transactionCategory' = updateModals(uiState', globalState)
               /\ pendingLookups' = pendingLookups + 1
               /\ last' = Event("handleSuggestCategory", "started", <<>>)
    /\ UNCHANGED <<globalState, monthlyData, monthKeys, localStorage, isInitialized,
                   now, opsLeft>>

\* a lookup that adds the category it is answered with to the registry
SuggestionResolvedAdding(text) ==
    /\ pendingLookups > 0
    /\ pendingLookups' = pendingLookups - 1
    /\ LET suggestedCategory == trim(text)
           categoryExists == some(globalState.categories,
                                  LAMBDA c : c.name = suggestedCategory)
       IN /\ globalState' =
               IF categoryExists THEN globalState
               ELSE [globalState EXCEPT !.categories =
                        sortCategories(push(@, [name |-> suggestedCategory,
                                                color |-> "#94a3b8"]))]
          /\ last' = Event("handleSuggestCategory",
                           IF transactionCategory # <<>> THEN "filled" ELSE "invalid",
                           [suggestedCategory |-> suggestedCategory, text |-> text])
    /\ localStorage' = saveDataToLocalStorage(monthlyData, globalState')
    /\ uiState' = [uiState EXCEPT !.isSuggesting = FALSE]
    /\ transactionCategory' = updateModals(uiState', globalState')
    /\ UNCHANGED <<monthlyData, monthKeys, isInitialized, now, opsLeft>>

\* the lookup answers: handleSuggestCategory from its await to its end
SuggestionResolved(text) ==
    /\ pendingLookups > 0
    /\ pendingLookups' = pendingLookups - 1
    /\ LET suggestedCategory == trim(text)
           categorySelect == transactionCategory # <<>>
           categoryExists == some(globalState.categories,
                                  LAMBDA c : c.name = suggestedCategory)
       IN last' = Event("handleSuggestCategory",
                        IF categorySelect /\ categoryExists THEN "filled" ELSE "invalid",
                        [suggestedCategory |-> suggestedCategory, text |-> text])
    /\ uiState' = [uiState EXCEPT !.isSuggesting = FALSE]
    \* the value given to the <select> lasts until the finally block renders
    \* the modal anew
    /\ transactionCategory' = updateModals(uiState', globalState)
    /\ UNCHANGED <<globalState, monthlyData, monthKeys, localStorage, isInitialized,
                   now, opsLeft>>

\* the lookup fails: the catch and finally blocks of handleSuggestCategory
SuggestionFailed ==
    /\ pendingLookups > 0
    /\ pendingLookups' = pendingLookups - 1
    /\ last' = Event("handleSuggestCategory", "failed", <<>>)
    /\ uiState' = [uiState EXCEPT !.isSuggesting = FALSE]
    /\ transactionCategory' = updateModals(uiState', globalState)
    /\ UNCHANGED <<globalState, monthlyData, monthKeys, localStorage, isInitialized,
                   now, opsLeft>>

\* the user picks an option of the category <select> of the transaction form
ChangeTransactionCategory(categoryName) ==
    /\ ShowsCategoryField(uiState)
    /\ categoryName \in CategoryNames(globalState)
    /\ transactionCategory # <<categoryName>>
    /\ transactionCategory' = <<categoryName>>
    /\ last' = Idle
    /\ UNCHANGED <<globalState, uiState, monthlyData, monthKeys, localStorage, isInitialized,
                   pendingLookups, now, opsLeft>>

\* ------------------------------------------------------------ specification

\* every event of the page, with every input
Next ==
    \/ OpenTransactionModal
    \/ OpenRecurringModal
    \/ OpenCategoryModal
    \/ CloseModal
    \/ CancelRecurringEdit
    \/ CancelRealExpenseEdit
    \/ \E direction \in {0 - 1, 1}, stream \in RandomStreams :
          NavigateMonth(direction, stream)
    \/ \E type \in TransactionTypes : TransactionTypeBtn(type)
    \/ \E type \in TransactionTypes : RecurringTypeBtn(type)
    \/ \E item \in Range(getCurrentPlannedExpenses) : EditExpenseBtn(item)
    \/ \E item \in Range(getCurrentPlannedExpenses), confirmed \in BOOLEAN :
          DeleteExpenseBtn(item, confirmed)
    \/ \E item \in Range(getCurrentIncomes) : EditIncomeBtn(item)
    \/ \E item \in Range(getCurrentIncomes) : DeleteIncomeBtn(item)
    \/ \E filling \in FormFillings, category \in CategoryOptions(globalState) :
          handleTransactionFormSubmit(filling, category)
    \/ \E filling \in FormFillings, date \in DateTexts,
          linkedCategory \in RealExpenseCategoryOptions :
          handleAddRealExpense(filling, date, linkedCategory)
    \/ \E item \in Range(getCurrentRealExpenses) : EditRealExpenseBtn(item)
    \/ \E item \in Range(getCurrentRealExpenses), confirmed \in BOOLEAN :
          DeleteRealExpenseBtn(item, confirmed)
    \/ \E nameText \in NameTexts : handleAddCategory(nameText)
    \/ \E categoryName \in CategoryNames(globalState), confirmed \in BOOLEAN :
          handleDeleteCategory(categoryName, confirmed)
    \/ \E type \in TransactionTypes :
          \E item \in Range(globalState[StoreOf(type)]) : EditRecurringBtn(item, type)
    \/ \E type \in TransactionTypes, confirmed \in BOOLEAN :
          \E item \in Range(globalState[StoreOf(type)]) :
             DeleteRecurringBtn(item, type, confirmed)
    \/ \E filling \in FormFillings, categoryValue \in CategoryOptions(globalState),
          stream \in RandomStreams :
          handleRecurringFormSubmit(filling, categoryValue, stream)
    \/ \E descriptionText \in DescriptionTexts : handleSuggestCategory(descriptionText)
    \/ \E text \in ResponseTexts : SuggestionResolved(text)
    \/ SuggestionFailed
    \/ \E categoryName \in CategoryNames(globalState) :
          ChangeTransactionCategory(categoryName)

Spec == Init /\ [][Next]_vars

\* ---------------------------------------------- recurring templates only
\* The recurring modal and month navigation: the events that create, change,
\* delete and seed recurring instances.  The draws of Math.random() only
\* number the instances, so one stream is followed.
OneStream == {[a |-> 0, d |-> 1]}

RecurringFormInputs ==
    { <<[description |-> "Rent", amount |-> "12"], "Logement">>,
      <<[description |-> "Gym",  amount |-> "-5"], "Repas">> }

NextRecurring ==
    \/ OpenRecurringModal
    \/ CloseModal
    \/ CancelRecurringEdit
    \/ \E direction \in {0 - 1, 1}, stream \in OneStream :
          NavigateMonth(direction, stream)
    \/ \E type \in TransactionTypes : RecurringTypeBtn(type)
    \/ \E type \in TransactionTypes :
          \E item \in Range(globalState[StoreOf(type)]) : EditRecurringBtn(item, type)
    \/ \E type \in TransactionTypes, confirmed \in BOOLEAN :
          \E item \in Range(globalState[StoreOf(type)]) :
             DeleteRecurringBtn(item, type, confirmed)
    \/ \E input \in RecurringFormInputs, stream \in OneStream :
          handleRecurringFormSubmit(input[1], input[2], stream)

SpecRecurring == Init /\ [][NextRecurring]_vars

\* the same events, in a session that may also start from the storage of an
\* earlier month
InitSeeding == \E storage \in {InitialStorage, ReturningStorage} : InitFrom(storage, MaxSeedOps)

SpecSeeding == InitSeeding /\ [][NextRecurring]_vars

\* the recurring expense form and month navigation, for one more operation
NextUpdate ==
    \/ OpenRecurringModal
    \/ \E direction \in {0 - 1, 1}, stream \in OneStream :
          NavigateMonth(direction, stream)
    \/ \E item \in Range(globalState.recurringExpenses) : EditRecurringBtn(item, "expense")
    \/ \E input \in RecurringFormInputs, stream \in OneStream :
          handleRecurringFormSubmit(input[1], input[2], stream)

SpecUpdate == InitFrom(InitialStorage, MaxUpdateOps) /\ [][NextUpdate]_vars

\* ------------------------------------------------ categories in use
\* The events that give a category its three kinds of use, and the category
\* modal.  Navigation goes forward only: the guard looks at every
\* materialized month, whichever is selected.
ValidFilling == [description |-> "Rent", amount |-> "12"]

NextCategories ==
    \/ OpenTransactionModal
    \/ OpenRecurringModal
    \/ OpenCategoryModal
    \/ CloseModal
    \/ \E stream \in OneStream : NavigateMonth(1, stream)
    \/ \E item \in Range(getCurrentPlannedExpenses), confirmed \in BOOLEAN :
          DeleteExpenseBtn(item, confirmed)
    \/ \E category \in CategoryOptions(globalState) :
          handleTransactionFormSubmit(ValidFilling, category)
    \/ \E linkedCategory \in RealExpenseCategoryOptions :
          handleAddRealExpense(ValidFilling, "2024-12-05", linkedCategory)
    \/ \E categoryName \in CategoryNames(globalState), confirmed \in BOOLEAN :
          handleDeleteCategory(categoryName, confirmed)
    \/ \E stream \in OneStream :
          handleRecurringFormSubmit(ValidFilling, "Logement", stream)

SpecCategories == InitFrom(InitialStorage, MaxCategoryOps) /\ [][NextCategories]_vars

\* ------------------------------------------------------------ the forms
\* Every form of the page with valid and invalid fillings, in the selected
\* month.
NextForms ==
    \/ OpenTransactionModal
    \/ OpenRecurringModal
    \/ OpenCategoryModal
    \/ CloseModal
    \/ \E type \in TransactionTypes : TransactionTypeBtn(type)
    \/ \E type \in TransactionTypes : RecurringTypeBtn(type)
    \/ \E item \in Range(getCurrentPlannedExpenses) : EditExpenseBtn(item)
    \/ \E item \in Range(getCurrentIncomes) : EditIncomeBtn(item)
    \/ \E filling \in FormFillings :
          handleTransactionFormSubmit(filling, "Repas")
    \/ \E filling \in FormFillings, date \in DateTexts,
          linkedCategory \in RealExpenseCategoryOptions :
          handleAddRealExpense(filling, date, linkedCategory)
    \/ \E item \in Range(getCurrentRealExpenses) : EditRealExpenseBtn(item)
    \/ \E nameText \in NameTexts : handleAddCategory(nameText)
    \/ \E categoryName \in CategoryNames(globalState), confirmed \in BOOLEAN :
          handleDeleteCategory(categoryName, confirmed)
    \/ \E type \in TransactionTypes :
          \E item \in Range(globalState[StoreOf(type)]) : EditRecurringBtn(item, type)
    \/ \E filling \in FormFillings, stream \in OneStream :
          handleRecurringFormSubmit(filling, "Repas", stream)

SpecForms == InitFrom(InitialStorage, MaxOps) /\ [][NextForms]_vars

\* ------------------------------------------------- recurring instances
\* the instances of list linked to template id
LinkedTo(list, id) == filter(list, LAMBDA i : i.recurringId = id)

\* the recurring instances of list, in order
RecurringInstances(list) == filter(list, LAMBDA i : i.isRecurring)

\* instance carries the description, amount and category of template
CarriesFieldsOf(instance, template, type) ==
    /\ instance.description = template.description
    /\ instance.amount = template.amount
    /\ type = "expense" => instance.category = template.category

\* the recurring instances of the ledger are, in order, one per template of
\* the store: instance j is linked to template j and carries its fields
ConsistentWithStore(ledger, gs) ==
    \A type \in TransactionTypes :
        LET instances == RecurringInstances(ledger[ListOf(type)])
            store == gs[StoreOf(type)]
        IN /\ Len(instances) = Len(store)
           /\ \A j \in 1..Len(instances) :
                 /\ instances[j].recurringId = store[j].id
                 /\ CarriesFieldsOf(instances[j], store[j], type)

TemplateOperations ==
    { [op |-> "handleRecurringFormSubmit", outcome |-> "added"],
      [op |-> "handleRecurringFormSubmit", outcome |-> "updated"],
      [op |-> "handleDeleteRecurring", outcome |-> "ok"] }

IsTemplateOperation(event) ==
    [op |-> event.op, outcome |-> event.outcome] \in TemplateOperations

\* C1 (seeding): the ledger created when app init or prev/next navigation
\* reaches a month that has none holds one realIncome instance per recurring
\* income template and one plannedExpenses instance per recurring expense
\* template, every one with isRecurring = TRUE and the recurringId of a
\* template of the store, and its realExpenses list is empty.
Seeding ==
    last.outcome = "seeded" =>
        LET ledger == monthlyData[uiState.selectedMonth]
        IN /\ ledger.realExpenses = <<>>
           /\ \A type \in TransactionTypes :
                LET list == ledger[ListOf(type)]
                    store == globalState[StoreOf(type)]
                IN /\ Len(list) = Len(store)
                   /\ \A j \in 1..Len(list) :
                         /\ list[j].isRecurring = TRUE
                         /\ list[j].recurringId = store[j].id
                         /\ \E template \in Range(store) :
                               list[j].recurringId = template.id

\* a navigation has seeded a month while both stores held a template
SeedingWitness ==
    /\ last.op = "navigate"
    /\ last.outcome = "seeded"
    /\ globalState.recurringIncomes # <<>>
    /\ globalState.recurringExpenses # <<>>
    /\ Len(monthlyData[uiState.selectedMonth].plannedExpenses) =
          Len(globalState.recurringExpenses)

\* C2 (create propagation): right after a template is added while month P
\* is selected, every materialized month >= P holds exactly one instance
\* whose recurringId is the new template's id, in the list of its type, and
\* every materialized month < P holds none.
CreatePropagation ==
    (last.op = "handleRecurringFormSubmit" /\ last.outcome = "added") =>
        \A monthKey \in DOMAIN monthlyData :
            Len(LinkedTo(monthlyData[monthKey][ListOf(last.args.type)], last.args.id)) =
                IF StringGE(monthKey, uiState.selectedMonth) THEN 1 ELSE 0

\* C4 (delete isolation): the deletion of the template with id i of a type
\* while month P is selected leaves no template with id i in the store of
\* that type and no instance with recurringId = i in the list of that type
\* in any materialized month >= P, and leaves every ledger of a month < P
\* as it was.
DeleteIsolation ==
    [][ (last'.op = "handleDeleteRecurring" /\ last'.outcome = "ok") =>
          LET id == last'.args.id
              type == last'.args.type
          IN /\ \A template \in Range(globalState'[StoreOf(type)]) : template.id # id
             /\ DOMAIN monthlyData' = DOMAIN monthlyData
             /\ \A monthKey \in DOMAIN monthlyData :
                   IF StringGE(monthKey, uiState.selectedMonth)
                   THEN LinkedTo(monthlyData'[monthKey][ListOf(type)], id) = <<>>
                   ELSE monthlyData'[monthKey] = monthlyData[monthKey] ]_vars

\* a template was deleted while a month before the selected one still holds
\* its instance, recurring and linked to it
DeleteIsolationWitness ==
    /\ last.op = "handleDeleteRecurring"
    /\ last.outcome = "ok"
    /\ \E monthKey \in DOMAIN monthlyData :
          /\ StringLess(monthKey, uiState.selectedMonth)
          /\ \E instance \in Range(monthlyData[monthKey][ListOf(last.args.type)]) :
                instance.isRecurring /\ instance.recurringId = last.args.id

SeedTimePickup ==
    (last.op = "navigate" /\ last.outcome = "seeded") =>
        \A type \in TransactionTypes :
            \A template \in Range(globalState[StoreOf(type)]) :
                LET linked == LinkedTo(monthlyData[uiState.selectedMonth][ListOf(type)],
                                       template.id)
                IN /\ Len(linked) = 1
                   /\ CarriesFieldsOf(linked[1], template, type)

\* C3 (update isolation): the update of the template with id i while month
\* P is selected gives every instance with recurringId = i in every
\* materialized month >= P the submitted description and amount (and
\* category for an expense) and keeps its id, isRecurring and recurringId;
\* every ledger of a month < P is left as it was.
UpdateIsolation ==
    [][ (last'.op = "handleRecurringFormSubmit" /\ last'.outcome = "updated") =>
          LET id == last'.args.id
              type == last'.args.type
              fields == last'.args.fields
          IN /\ DOMAIN monthlyData' = DOMAIN monthlyData
             /\ \A monthKey \in DOMAIN monthlyData :
                   IF StringGE(monthKey, uiState.selectedMonth)
                   THEN LET before == monthlyData[monthKey][ListOf(type)]
                            after == monthlyData'[monthKey][ListOf(type)]
                        IN /\ Len(after) = Len(before)
                           /\ \A j \in 1..Len(after) :
                                 after[j].recurringId = id =>
                                    /\ \A f \in DOMAIN fields : after[j][f] = fields[f]
                                    /\ after[j].id = before[j].id
                                    /\ after[j].isRecurring = before[j].isRecurring
                                    /\ after[j].recurringId = before[j].recurringId
                   ELSE monthlyData'[monthKey] = monthlyData[monthKey] ]_vars

\* ------------------------------------------------------ category guard
\* the months whose planned expenses, and whose real expenses, refer to
\* category c, and the recurring expense templates that do
PlannedReferences(c) ==
    {k \in DOMAIN monthlyData :
        \E j \in 1..Len(monthlyData[k].plannedExpenses) :
            monthlyData[k].plannedExpenses[j].category = c}

RealReferences(c) ==
    {k \in DOMAIN monthlyData :
        \E j \in 1..Len(monthlyData[k].realExpenses) :
            monthlyData[k].realExpenses[j].linkedCategory = c}

TemplateReferences(c) ==
    {j \in 1..Len(globalState.recurringExpenses) : globalState.recurringExpenses[j].category = c}

\* the kinds of use that hold a reference to category c
ClassesReferring(c) ==
    (IF PlannedReferences(c) # {} THEN {"dépenses planifiées"} ELSE {})
    \cup (IF RealReferences(c) # {} THEN {"dépenses réelles"} ELSE {})
    \cup (IF TemplateReferences(c) # {} THEN {"dépenses récurrentes"} ELSE {})

\* C5 (category guard): the deletion of category c is refused and leaves the
\* registry as it was whenever a planned expense of any materialized month,
\* a real expense of any materialized month or a recurring expense template
\* refers to c; when nothing refers to c and the user confirms, c leaves
\* the registry and every other category stays.
CategoryGuard ==
    [][ last'.op = "handleDeleteCategory" =>
          LET c == last'.args.categoryName
          IN IF ClassesReferring(c) # {}
             THEN /\ last'.outcome = "rejected"
                  /\ globalState'.categories = globalState.categories
             ELSE /\ last'.outcome \in {"ok", "cancelled"}
                  /\ last'.outcome = "ok" =>
                        /\ c \in CategoryNames(globalState)
                        /\ c \notin CategoryNames(globalState')
                        /\ globalState'.categories =
                              SelectSeq(globalState.categories, LAMBDA other : other.name # c)
                  /\ last'.outcome = "cancelled" =>
                        globalState'.categories = globalState.categories ]_vars

\* a deletion was refused for a category that nothing of the selected month
\* refers to: the reference is in another materialized month
CategoryGuardWitness ==
    /\ last.op = "handleDeleteCategory"
    /\ last.outcome = "rejected"
    /\ TemplateReferences(last.args.categoryName) = {}
    /\ uiState.selectedMonth \notin PlannedReferences(last.args.categoryName)
                                       \cup RealReferences(last.args.categoryName)

\* C6 (usage classes): the kinds of use reported when a category deletion
\* is refused are exactly the kinds, among planned expenses, real expenses
\* and recurring expense templates, that hold a reference to the category.
UsageClasses ==
    (last.op = "handleDeleteCategory" /\ last.outcome = "rejected") =>
        /\ Range(last.args.usageInfo) = ClassesReferring(last.args.categoryName)
        /\ Len(last.args.usageInfo) = Cardinality(ClassesReferring(last.args.categoryName))

\* a refusal that reports real expenses alone
UsageClassesWitness ==
    /\ last.op = "handleDeleteCategory"
    /\ last.outcome = "rejected"
    /\ last.args.usageInfo = <<"dépenses réelles">>

\* ------------------------------------------------------------ rejection
\* C9 (all-or-nothing on rejection): an operation that ends in an error
\* outcome (category name empty or already taken, category in use,
\* real-expense form with a missing field, recurring form with an empty
\* description or a non-numeric amount) leaves the categories, both template
\* stores, every ledger and the persisted blobs as they were.
RejectionChangesNothing ==
    [][ last'.outcome = "rejected" =>
          /\ globalState' = globalState
          /\ monthlyData' = monthlyData
          /\ localStorage' = localStorage ]_vars

\* the real-expense form was rejected while the ledger held a planned and a
\* real expense and the storage held none of the session's defaults
RejectionWitness ==
    /\ last.op = "handleAddRealExpense"
    /\ last.outcome = "rejected"
    /\ getCurrentPlannedExpenses # <<>>
    /\ getCurrentRealExpenses # <<>>

\* C10 (validation coverage): no form stores an empty description, a
\* non-numeric amount or an amount that is not positive, a real expense
\* without date or category, or an expense without category: no template
\* and no ledger entry has such a field.
ValidationCoverage ==
    LET WellFormed(item) == /\ item.description # ""
                            /\ ~isNaN(item.amount)
                            /\ item.amount > 0
    IN /\ \A type \in TransactionTypes :
            \A template \in Range(globalState[StoreOf(type)]) : WellFormed(template)
       /\ \A monthKey \in DOMAIN monthlyData :
            /\ \A income \in Range(monthlyData[monthKey].realIncome) : WellFormed(income)
            /\ \A expense \in Range(monthlyData[monthKey].plannedExpenses) :
                  WellFormed(expense) /\ expense.category # ""
            /\ \A expense \in Range(monthlyData[monthKey].realExpenses) :
                  WellFormed(expense) /\ expense.date # "" /\ expense.linkedCategory # ""

\* ------------------------------------------------- templates of an earlier session
\* the events of the recurring modal, in a session that finds the templates
\* and the ledger of the month before
NextReturning ==
    \/ OpenRecurringModal
    \/ \E direction \in {0 - 1, 1}, stream \in OneStream :
          NavigateMonth(direction, stream)
    \/ \E type \in TransactionTypes :
          \E item \in Range(globalState[StoreOf(type)]) : EditRecurringBtn(item, type)
    \/ \E type \in TransactionTypes, confirmed \in BOOLEAN :
          \E item \in Range(globalState[StoreOf(type)]) :
             DeleteRecurringBtn(item, type, confirmed)
    \/ \E stream \in OneStream :
          handleRecurringFormSubmit(ValidFilling, "Repas", stream)

SpecReturning == InitFrom(ReturningStorage, MaxOps) /\ [][NextReturning]_vars

\* the ids of the templates of a type
TemplateIds(gs, type) == {gs[StoreOf(type)][j].id : j \in 1..Len(gs[StoreOf(type)])}

\* the recurring form is submitted for a template that has left its store
SubmitsStaleUpdate ==
    /\ last'.op = "handleRecurringFormSubmit"
    /\ last'.outcome # "rejected"
    /\ uiState.editingRecurringTransaction # Null
    /\ uiState.editingRecurringTransaction.id
          \notin TemplateIds(globalState, uiState.editingRecurringTransaction.type)

\* C11 (template not found): the submission of an update for a template
\* whose id is no longer in the store of its type ends in the error outcome
\* TemplateNotFound and changes no template and no ledger.
TemplateNotFound ==
    [][ SubmitsStaleUpdate =>
          /\ last'.outcome = "TemplateNotFound"
          /\ globalState' = globalState
          /\ monthlyData' = monthlyData ]_vars

\* ------------------------------------------------------ atomic propagation
\* the same events, in a session that finds a ledger of the old structure
SpecLegacy == InitFrom(LegacyStorage, MaxOps) /\ [][NextReturning]_vars

\* the ledgers after the propagation of an update or a deletion of template
\* id to every month at or after the selected one
FullyPropagated(Change(_), type) ==
    [k \in DOMAIN monthlyData |->
        IF IsAtOrAfter(k, uiState.selectedMonth) /\ ListOf(type) \in DOMAIN monthlyData[k]
        THEN [monthlyData[k] EXCEPT ![ListOf(type)] = Change(@)]
        ELSE monthlyData[k]]

NothingApplied == globalState' = globalState /\ monthlyData' = monthlyData

\* C12 (atomic propagation): when the handler of a template update or
\* deletion ends, normally or through a failure while it goes through the
\* months, either the template store and every materialized month at or
\* after the selected one reflect the change, or the template stores and
\* every ledger are as before the call.
AtomicPropagation ==
    [][ /\ ( /\ last'.op = "handleRecurringFormSubmit"
             /\ last'.outcome \in {"updated", "threw"}
             /\ uiState.editingRecurringTransaction # Null ) =>
            LET id == last'.args.id
                type == last'.args.type
                fields == last'.args.fields
            IN \/ NothingApplied
               \/ /\ globalState' = [globalState EXCEPT ![StoreOf(type)] =
                                         UpdateTemplate(@, id, fields)]
                  /\ monthlyData' =
                        FullyPropagated(LAMBDA list : UpdateInstances(list, id, fields), type)
        /\ ( /\ last'.op = "handleDeleteRecurring"
             /\ last'.outcome \in {"ok", "threw"} ) =>
            LET id == last'.args.id
                type == last'.args.type
            IN \/ NothingApplied
               \/ /\ globalState' = [globalState EXCEPT ![StoreOf(type)] =
                                         DeleteTemplate(@, id)]
                  /\ monthlyData' =
                        FullyPropagated(LAMBDA list : filter(list, LAMBDA i : i.recurringId # id),
                                        type) ]_vars

\* ---------------------------------------------------------------- page load
\* The page before DOMContentLoaded, over the storages it may find: each blob
\* absent, unparsable, or the text of a value.
PreviousMonth == ShiftedMonthKey(getMonthKey(StartDate), 0 - 1)

StoredInstance ==
    [id |-> DateNow(0) + 1, description |-> "Rent", amount |-> 12, category |-> "Logement",
     isRecurring |-> TRUE, recurringId |-> DateNow(0)]

StoredIncome ==
    [id |-> DateNow(0), description |-> "Bonus", amount |-> 5, isRecurring |-> FALSE]

StoredRealExpense ==
    [id |-> DateNow(0), description |-> "Pizza", amount |-> 7, date |-> "2024-11-05",
     linkedCategory |-> "Repas"]

\* ledgers of the old and of the present structure
StoredLedgers ==
    { LegacyLedger,
      [expenses |-> <<>>, realIncome |-> <<StoredIncome>>, note |-> "checked"],
      [expenses |-> <<StoredInstance>>, plannedExpenses |-> <<>>,
       realIncome |-> <<StoredIncome>>],
      [realIncome |-> <<StoredIncome>>, plannedExpenses |-> <<StoredInstance>>,
       realExpenses |-> <<StoredRealExpense>>],
      [realIncome |-> <<>>, plannedExpenses |-> <<>>, realExpenses |-> <<>>] }

StoredMaps ==
    UNION { [months -> StoredLedgers] :
               months \in SUBSET {PreviousMonth, getMonthKey(StartDate)} \ {{}} }

Blobs(values) == {Absent, Corrupt} \cup {Json(value) : value \in values}

LoadStorages ==
    [monthlyData       : Blobs(StoredMaps),
     recurringIncomes  : Blobs({EarlierTemplates.recurringIncomes}),
     recurringExpenses : Blobs({EarlierTemplates.recurringExpenses}),
     categories        : Blobs({<<>>, StoredCategories})]

\* the module-level values of the state, before initializeState has run
InitLoad ==
    /\ globalState = [categories |-> <<>>, recurringIncomes |-> <<>>,
                      recurringExpenses |-> <<>>]
    /\ uiState = InitialUiState
    /\ monthlyData = <<>>
    /\ monthKeys = <<>>
    /\ localStorage \in LoadStorages
    /\ isInitialized = FALSE
    /\ transactionCategory = <<>>
    /\ pendingLookups = 0
    /\ now = 0
    /\ opsLeft = MaxOps
    /\ last = Idle

\* the blobs that fail to parse
Discarded(storage) == {key \in DOMAIN storage : storage[key].kind = "corrupt"}

\* DOMContentLoaded: initializeState
DOMContentLoaded(stream) ==
    /\ ~isInitialized
    /\ LET seeded == uiState.selectedMonth
                         \notin DOMAIN loadFromStorage(localStorage, "monthlyData", <<>>)
           templates == loadFromStorage(localStorage, "recurringIncomes", <<>>)
                           \o loadFromStorage(localStorage, "recurringExpenses", <<>>)
       IN \E t \in Readings(seeded /\ templates # <<>>) :
            LET st == initializeState(localStorage, uiState.selectedMonth, t, stream)
            IN /\ now' = t
               /\ globalState' = st.globalState
               /\ monthlyData' = st.monthlyData
               /\ monthKeys' = st.monthKeys
               /\ localStorage' = st.localStorage
               /\ last' = Event("initializeState", IF seeded THEN "seeded" ELSE "ok",
                                [discarded |-> Discarded(localStorage)])
    /\ isInitialized' = TRUE
    /\ UNCHANGED <<uiState, transactionCategory, pendingLookups, opsLeft>>

NextLoad == \E stream \in RandomStreams : DOMContentLoaded(stream)

SpecLoad == InitLoad /\ [][NextLoad]_vars

\* the step that initializes the page
Loads == ~isInitialized /\ isInitialized'

\* the value of a blob, once the page is loaded (a load leaves the blobs
\* that parse as they are)
Stored(key) == localStorage[key].value

\* C13 (persistence tracks memory): after initialization and after every
\* handler that changes the categories, a template store or a ledger, the
\* four blobs are the serialized state of the memory.
PersistenceTracksMemory ==
    isInitialized => localStorage = saveDataToLocalStorage(monthlyData, globalState)

\* C14 (independent load): whatever the four blobs are (absent, unparsable
\* or the text of a value), initialization completes, with a ledger for the
\* selected month; a blob that fails to
\* parse is discarded and its part of the state takes the default (empty
\* list, no restored month, the default categories), and a blob that parses
\* is loaded with its content whatever the other three are.
IndependentLoad ==
    /\ [](~isInitialized =>
            \A stream \in RandomStreams, t \in ClockReadings :
                uiState.selectedMonth \in
                    DOMAIN initializeState(localStorage, uiState.selectedMonth,
                                           t, stream).monthlyData)
    /\ [][ Loads =>
            /\ isInitialized'
            /\ \A key \in {"recurringIncomes", "recurringExpenses"} :
                  globalState'[key] =
                     IF localStorage[key].kind = "json" THEN localStorage[key].value
                     ELSE <<>>
            /\ IF localStorage.categories.kind = "json"
               THEN /\ Range(globalState'.categories) = Range(localStorage.categories.value)
                    /\ Len(globalState'.categories) = Len(localStorage.categories.value)
               ELSE globalState'.categories = DefaultCategories
            /\ IF localStorage.monthlyData.kind = "json"
               THEN LET stored == localStorage.monthlyData.value
                    IN /\ DOMAIN monthlyData' \ {uiState.selectedMonth}
                             = DOMAIN stored \ {uiState.selectedMonth}
                       /\ \A k \in DOMAIN stored :
                             /\ k \in DOMAIN monthlyData'
                             /\ \A f \in DOMAIN stored[k] \ {"expenses"} :
                                   monthlyData'[k][f] = stored[k][f]
                             /\ "expenses" \in DOMAIN stored[k] =>
                                   \E f \in {"expenses", "plannedExpenses"} :
                                       /\ f \in DOMAIN monthlyData'[k]
                                       /\ monthlyData'[k][f] = stored[k].expenses
               ELSE DOMAIN monthlyData' = {uiState.selectedMonth}
            /\ localStorage' =
                  [key \in DOMAIN localStorage |->
                      IF localStorage[key].kind = "corrupt" THEN Absent
                      ELSE localStorage[key]] ]_vars

\* the page is loaded from a storage whose recurring incomes fail to parse
\* while the other three blobs hold values
IndependentLoadWitness ==
    /\ isInitialized
    /\ last.args.discarded = {"recurringIncomes"}
    /\ globalState.recurringIncomes = <<>>
    /\ globalState.recurringExpenses = EarlierTemplates.recurringExpenses
    /\ globalState.categories = sortCategories(StoredCategories)
    /\ PreviousMonth \in DOMAIN monthlyData

\* C15 (default categories): the default categories are installed at
\* initialization only when the categories blob is absent or fails to
\* parse; when it parses, to the empty list too, the registry holds the
\* stored categories and no default is added.
DefaultCategoriesOnlyWhenAbsent ==
    [][ Loads =>
          IF localStorage.categories.kind = "json"
          THEN /\ globalState'.categories = sortCategories(localStorage.categories.value)
               /\ Range(globalState'.categories) = Range(localStorage.categories.value)
               /\ Len(globalState'.categories) = Len(localStorage.categories.value)
          ELSE globalState'.categories = DefaultCategories ]_vars

\* the page is loaded from a storage whose categories blob is the empty list
DefaultCategoriesWitness ==
    /\ isInitialized
    /\ last.op = "initializeState"
    /\ localStorage.categories = Json(<<>>)
    /\ globalState.categories = <<>>

\* C16 (idempotent migration): the migration applied to the ledgers it has
\* produced gives them back as they are, and a ledger that has
\* plannedExpenses and realExpenses is loaded as it was stored.
MigrationIdempotent ==
    [][ (Loads /\ localStorage.monthlyData.kind = "json") =>
          LET stored == localStorage.monthlyData.value
          IN \A k \in DOMAIN stored :
                /\ MigrateLedger(monthlyData'[k]) = monthlyData'[k]
                /\ MigrateLedger(MigrateLedger(stored[k])) = MigrateLedger(stored[k])
                /\ {"plannedExpenses", "realExpenses"} \subseteq DOMAIN stored[k] =>
                      monthlyData'[k] = stored[k] ]_vars

\* a ledger of the present structure with a planned and a real expense was
\* loaded next to a ledger of the old structure
MigrationIdempotentWitness ==
    /\ isInitialized
    /\ localStorage.monthlyData.kind = "json"
    /\ \E k, other \in DOMAIN Stored("monthlyData") :
          /\ {"plannedExpenses", "realExpenses"} \subseteq DOMAIN Stored("monthlyData")[k]
          /\ Stored("monthlyData")[k].realExpenses # <<>>
          /\ monthlyData[k] = Stored("monthlyData")[k]
          /\ "plannedExpenses" \notin DOMAIN Stored("monthlyData")[other]

\* C17 (migration result): after a load, a restored ledger that had an
\* expenses list and no plannedExpenses has the old list as plannedExpenses
\* and no expenses; a restored ledger that had no realExpenses has the empty
\* list; realIncome and every other field are as stored.
MigrationResult ==
    [][ (Loads /\ localStorage.monthlyData.kind = "json") =>
          LET stored == localStorage.monthlyData.value
          IN \A k \in DOMAIN stored :
                LET old == stored[k]
                    new == monthlyData'[k]
                    legacy == "expenses" \in DOMAIN old /\ "plannedExpenses" \notin DOMAIN old
                    kept == DOMAIN old \ (IF legacy THEN {"expenses"} ELSE {})
                IN /\ legacy => /\ new.plannedExpenses = old.expenses
                                /\ "expenses" \notin DOMAIN new
                   /\ "realExpenses" \notin DOMAIN old => new.realExpenses = <<>>
                   /\ \A f \in kept : f \in DOMAIN new /\ new[f] = old[f]
                   /\ DOMAIN new = kept \cup {"realExpenses"}
                                      \cup (IF legacy THEN {"plannedExpenses"} ELSE {}) ]_vars

\* a ledger that held nothing but an expenses list was loaded
MigrationResultWitness ==
    /\ isInitialized
    /\ localStorage.monthlyData.kind = "json"
    /\ \E k \in DOMAIN Stored("monthlyData") :
          /\ Stored("monthlyData")[k] = LegacyLedger
          /\ monthlyData[k].plannedExpenses = LegacyLedger.expenses
          /\ monthlyData[k].plannedExpenses # <<>>
          /\ monthlyData[k].realExpenses = <<>>

\* ------------------------------------------------------- category registry
\* The category modal on a first run of the page: the registry is the default
\* list.
FirstRunStorage ==
    [monthlyData |-> Absent, recurringIncomes |-> Absent, recurringExpenses |-> Absent,
     categories |-> Absent]

RegistryNameTexts == NameTexts \cup {"Sport", " sport", "SPORT "}

NextRegistry ==
    \/ OpenCategoryModal
    \/ CloseModal
    \/ \E nameText \in RegistryNameTexts : handleAddCategory(nameText)
    \/ \E categoryName \in CategoryNames(globalState), confirmed \in BOOLEAN :
          handleDeleteCategory(categoryName, confirmed)

SpecRegistry == InitFrom(FirstRunStorage, MaxCategoryOps) /\ [][NextRegistry]_vars

\* no two categories have the same name once case is ignored
DistinctIgnoringCase(categories) ==
    \A i, j \in 1..Len(categories) :
        i # j => toLowerCase(categories[i].name) # toLowerCase(categories[j].name)

SortedByName(categories) ==
    \A i, j \in 1..Len(categories) :
        i < j => localeCompare(categories[i].name, categories[j].name) <= 0

NextSuggest ==
    \/ OpenTransactionModal
    \/ OpenCategoryModal
    \/ CloseModal
    \/ \E type \in TransactionTypes : TransactionTypeBtn(type)
    \/ \E category \in CategoryOptions(globalState) :
          handleTransactionFormSubmit(ValidFilling, category)
    \/ \E nameText \in NameTexts : handleAddCategory(nameText)
    \/ \E categoryName \in CategoryNames(globalState), confirmed \in BOOLEAN :
          handleDeleteCategory(categoryName, confirmed)
    \/ \E descriptionText \in DescriptionTexts : handleSuggestCategory(descriptionText)
    \/ \E text \in ResponseTexts : SuggestionResolved(text)
    \/ SuggestionFailed
    \/ \E categoryName \in CategoryNames(globalState) :
          ChangeTransactionCategory(categoryName)

SpecSuggest == InitFrom(InitialStorage, MaxOps) /\ [][NextSuggest]_vars

\* C19 (busy flag): while a suggestion lookup is awaited, a second request
\* is blocked at the entry of the handler and starts no lookup; at most one
\* lookup is awaited at any time.
BusyFlagGating ==
    /\ [](pendingLookups <= 1)
    /\ [][ pendingLookups > 0 => pendingLookups' <= pendingLookups ]_vars

IsAnswer(event) ==
    event.op = "handleSuggestCategory" /\ event.outcome \in {"filled", "invalid"}

\* C21 (suggestion acceptance): the name the lookup answers with becomes the
\* value of the category field of the form only if it is the name of a
\* category of the registry when the answer arrives; any other name counts
\* as a failure and leaves the category field as it was.
SuggestionAcceptance ==
    [][ IsAnswer(last') =>
          LET name == last'.args.suggestedCategory
              known == name \in CategoryNames(globalState)
          IN /\ ( /\ transactionCategory' # transactionCategory
                  /\ transactionCategory' = <<name>> ) => known
             /\ ~known => /\ last'.outcome = "invalid"
                          /\ transactionCategory' = transactionCategory ]_vars

\* ------------------------------------------------------------- the ledgers
\* The events that create or change a ledger entry or a template, with month
\* navigation, in a first session.
NextLedgers ==
    \/ OpenTransactionModal
    \/ OpenRecurringModal
    \/ CloseModal
    \/ \E direction \in {0 - 1, 1}, stream \in OneStream :
          NavigateMonth(direction, stream)
    \/ \E item \in Range(getCurrentPlannedExpenses) : EditExpenseBtn(item)
    \/ \E item \in Range(getCurrentIncomes) : EditIncomeBtn(item)
    \/ \E item \in Range(getCurrentPlannedExpenses) : DeleteExpenseBtn(item, TRUE)
    \/ \E type \in TransactionTypes : TransactionTypeBtn(type)
    \/ handleTransactionFormSubmit(ValidFilling, "Repas")
    \/ \E linkedCategory \in RealExpenseCategoryOptions :
          handleAddRealExpense(ValidFilling, "2024-12-05", linkedCategory)
    \/ \E type \in TransactionTypes :
          \E item \in Range(globalState[StoreOf(type)]) : EditRecurringBtn(item, type)
    \/ \E type \in TransactionTypes :
          \E item \in Range(globalState[StoreOf(type)]) :
             DeleteRecurringBtn(item, type, TRUE)
    \/ \E stream \in OneStream :
          handleRecurringFormSubmit(ValidFilling, "Logement", stream)

SpecLedgers == InitFrom(InitialStorage, MaxOps) /\ [][NextLedgers]_vars

\* C22 (one-time materialization): no operation removes a month; a month
\* gets its ledger by seeding, and only a month that has none is seeded; a
\* navigation to a month that has its ledger leaves every ledger and both
\* template stores as they are.
MaterializedOnce ==
    [][ /\ DOMAIN monthlyData \subseteq DOMAIN monthlyData'
        /\ \A monthKey \in DOMAIN monthlyData' \ DOMAIN monthlyData :
              last'.outcome = "seeded" /\ monthKey = uiState'.selectedMonth
        /\ last'.outcome = "seeded" =>
              /\ uiState'.selectedMonth \notin DOMAIN monthlyData
              /\ \A monthKey \in DOMAIN monthlyData :
                    monthlyData'[monthKey] = monthlyData[monthKey]
        /\ (last'.op = "navigate" /\ uiState'.selectedMonth \in DOMAIN monthlyData) =>
              /\ monthlyData' = monthlyData
              /\ globalState' = globalState ]_vars

\* a navigation has come back to a month whose ledger no longer matches the
\* template store, and has left it so
MaterializedOnceWitness ==
    /\ last.op = "navigate"
    /\ last.outcome = "ok"
    /\ Cardinality(DOMAIN monthlyData) > 1
    /\ ~ConsistentWithStore(monthlyData[uiState.selectedMonth], globalState)

\* ------------------------------------------------------------------- ids
IdsDistinct(list) == \A i, j \in 1..Len(list) : i # j => list[i].id # list[j].id

\* C23 (id uniqueness): in every state the ids of each list of each ledger
\* are pairwise distinct, and so are the template ids of each store, whenever
\* the items were created (at the same reading of the clock too).
IdUniqueness ==
    /\ \A monthKey \in DOMAIN monthlyData :
          \A list \in DOMAIN monthlyData[monthKey] : IdsDistinct(monthlyData[monthKey][list])
    /\ IdsDistinct(globalState.recurringIncomes)
    /\ IdsDistinct(globalState.recurringExpenses)

\* ------------------------------------------------------- recurring links
\* the recurring instances of every list of the type are linked to a
\* template of the store of gs, or of the store of before, or carry a link a
\* recurring instance of their month carried before
LinksAccountedFor(md, gs, mdBefore, gsBefore) ==
    \A monthKey \in DOMAIN md, type \in TransactionTypes :
        \A instance \in Range(md[monthKey][ListOf(type)]) :
            instance.isRecurring =>
                \/ instance.recurringId \in TemplateIds(gs, type)
                \/ instance.recurringId \in TemplateIds(gsBefore, type)
                \/ /\ monthKey \in DOMAIN mdBefore
                   /\ \E before \in Range(mdBefore[monthKey][ListOf(type)]) :
                         before.isRecurring /\ before.recurringId = instance.recurringId

\* the items that are not recurring carry no link
UnlinkedUnlessRecurring(md) ==
    \A monthKey \in DOMAIN md, type \in TransactionTypes :
        \A item \in Range(md[monthKey][ListOf(type)]) :
            ~item.isRecurring => item.recurringId = Undefined

\* C24 (recurring links): from an empty store on, every instance with
\* isRecurring = TRUE has the recurringId of a template of its type that is
\* in the store or was in it earlier (each step leaves the recurring
\* instances with links to templates of the store, before or after it, or
\* with the links they had), and every item the transaction form creates has
\* isRecurring = FALSE and no recurringId, and keeps both when it is edited.
RecurringLinks ==
    /\ [](UnlinkedUnlessRecurring(monthlyData))
    /\ LinksAccountedFor(monthlyData, globalState, <<>>, globalState)
    /\ [][ /\ LinksAccountedFor(monthlyData', globalState', monthlyData, globalState)
           /\ last'.op = "handleTransactionFormSubmit" =>
                LET list == ListOf(last'.args.type)
                    before == monthlyData[uiState.selectedMonth][list]
                    after == monthlyData'[uiState.selectedMonth][list]
                IN IF last'.args.editing
                   THEN /\ Len(after) = Len(before)
                        /\ \A j \in 1..Len(after) :
                              /\ after[j].isRecurring = before[j].isRecurring
                              /\ after[j].recurringId = before[j].recurringId
                   ELSE /\ Len(after) = Len(before) + 1
                        /\ SubSeq(after, 1, Len(before)) = before
                        /\ after[Len(after)].isRecurring = FALSE
                        /\ after[Len(after)].recurringId = Undefined ]_vars

\* a template was deleted while a month before the selected one holds its
\* instance: the instance is linked to a template that is no longer in the
\* store, next to an item the transaction form created
RecurringLinksWitness ==
    /\ last.op = "handleDeleteRecurring"
    /\ last.outcome = "ok"
    /\ \E monthKey \in DOMAIN monthlyData, type \in TransactionTypes :
          \E instance \in Range(monthlyData[monthKey][ListOf(type)]) :
              /\ instance.isRecurring
              /\ instance.recurringId = last.args.id
              /\ instance.recurringId \notin TemplateIds(globalState, type)

\* a planned expense the transaction form created was edited
EditedPlannedWitness ==
    /\ last.op = "handleTransactionFormSubmit"
    /\ last.args.editing
    /\ \E item \in Range(getCurrentPlannedExpenses) :
          ~item.isRecurring /\ item.recurringId = Undefined

\* ------------------------------------------------------------- month shift
\* The page loaded in any month of LoadYears years, and month navigation from
\* there.
LoadDates ==
    {[year |-> StartDate.year + y, month |-> m] : y \in 0..(LoadYears - 1), m \in 0..11}

\* the months navigation is followed to: those around the month of the load,
\* which is the first month to get its ledger
ShiftWindow == {ShiftBy(monthKeys[1], n) : n \in (0 - NavRadius)..NavRadius}

\* the state after initializeState has run on a first visit at the date
InitShift ==
    \E date \in LoadDates, stream \in OneStream :
        LET ui == [InitialUiState EXCEPT !.selectedMonth = getMonthKey(date)]
            st == initializeState(FirstRunStorage, ui.selectedMonth, 0, stream)
        IN /\ now = 0
           /\ opsLeft = MaxOps
           /\ uiState = ui
           /\ isInitialized = TRUE
           /\ transactionCategory = <<>>
           /\ pendingLookups = 0
           /\ globalState = st.globalState
           /\ monthlyData = st.monthlyData
           /\ monthKeys = st.monthKeys
           /\ localStorage = st.localStorage
           /\ last = Event("initializeState", "seeded", <<>>)

NextShift ==
    \E direction \in {0 - 1, 1}, stream \in OneStream :
        NavigateWithin(ShiftWindow, direction, stream)

SpecShift == InitShift /\ [][NextShift]_vars

\* a month key read digit by digit, and written
YearOf(key) ==
    1000 * DigitValue(SubSeq(key, 1, 1)) + 100 * DigitValue(SubSeq(key, 2, 2))
        + 10 * DigitValue(SubSeq(key, 3, 3)) + DigitValue(SubSeq(key, 4, 4))

MonthOf(key) == 10 * DigitValue(SubSeq(key, 6, 6)) + DigitValue(SubSeq(key, 7, 7))

TwoDigits(n) == Digits[(n \div 10) + 1] \o Digits[(n % 10) + 1]

MonthKeyOf(year, month) == TwoDigits(year \div 100) \o TwoDigits(year % 100) \o "-" \o TwoDigits(month)

ZeroPadded(key) ==
    /\ Len(key) = 7
    /\ SubSeq(key, 5, 5) = "-"
    /\ \A i \in {1, 2, 3, 4, 6, 7} : IsDigit(SubSeq(key, i, i))
    /\ MonthOf(key) \in 1..12

NextMonthOf(key) ==
    IF MonthOf(key) < 12 THEN MonthKeyOf(YearOf(key), MonthOf(key) + 1)
    ELSE MonthKeyOf(YearOf(key) + 1, 1)

PrevMonthOf(key) ==
    IF MonthOf(key) > 1 THEN MonthKeyOf(YearOf(key), MonthOf(key) - 1)
    ELSE MonthKeyOf(YearOf(key) - 1, 12)

\* C25 (month shift): from the month key YYYY-MM, next-month leads to
\* YYYY-(MM+1) when MM < 12 and to (YYYY+1)-01 when MM = 12, prev-month to
\* YYYY-(MM-1) when MM > 01 and to (YYYY-1)-12 when MM = 01; the key is
\* always a zero-padded YYYY-MM, and prev-month after next-month leads back
\* to the key it started from.
MonthShift ==
    /\ [](LET key == uiState.selectedMonth
          IN /\ ZeroPadded(key)
             /\ ShiftedMonthKey(key, 1) = NextMonthOf(key)
             /\ ShiftedMonthKey(key, 0 - 1) = PrevMonthOf(key)
             /\ ZeroPadded(ShiftedMonthKey(key, 1))
             /\ ZeroPadded(ShiftedMonthKey(key, 0 - 1))
             /\ ShiftedMonthKey(ShiftedMonthKey(key, 1), 0 - 1) = key)
    /\ [][ last'.op = "navigate" =>
             uiState'.selectedMonth \in {NextMonthOf(uiState.selectedMonth),
                                         PrevMonthOf(uiState.selectedMonth)} ]_vars

\* the page was loaded in a January and prev-month has led to the December
\* of the year before
MonthShiftWitness ==
    /\ last.op = "navigate"
    /\ MonthOf(monthKeys[1]) = 1
    /\ MonthOf(uiState.selectedMonth) = 12
    /\ YearOf(uiState.selectedMonth) = YearOf(monthKeys[1]) - 1
    /\ Len(monthKeys) = 2

\* ------------------------------------------------------------ the busy flag
\* a lookup has ended, by an answer or by a failure
IsLookupEnd(event) ==
    event.op = "handleSuggestCategory" /\ event.outcome \in {"filled", "invalid", "failed"}

\* C26 (busy flag release): the step that ends a lookup, by an answer or by
\* a failure, leaves isSuggesting false; and isSuggesting is false only
\* when no lookup is awaited.
BusyFlagRelease ==
    /\ [][ IsLookupEnd(last') => ~uiState'.isSuggesting ]_vars
    /\ [](~uiState.isSuggesting => pendingLookups = 0)

\* ------------------------------------------------- references to categories
\* The events that store the name of a category, seed a month or delete a
\* category.  Each form is submitted with a category of the registry.
NextReferences ==
    \/ OpenTransactionModal
    \/ OpenRecurringModal
    \/ OpenCategoryModal
    \/ CloseModal
    \/ \E stream \in OneStream : NavigateMonth(1, stream)
    \/ \E item \in Range(getCurrentPlannedExpenses) : EditExpenseBtn(item)
    \/ \E item \in Range(getCurrentPlannedExpenses) : DeleteExpenseBtn(item, TRUE)
    \/ \E category \in CategoryNames(globalState) :
          handleTransactionFormSubmit(ValidFilling, category)
    \/ \E linkedCategory \in RealExpenseCategoryOptions :
          handleAddRealExpense(ValidFilling, "2024-12-05", linkedCategory)
    \/ \E categoryName \in CategoryNames(globalState) :
          handleDeleteCategory(categoryName, TRUE)
    \/ \E item \in Range(globalState.recurringExpenses) : EditRecurringBtn(item, "expense")
    \/ \E item \in Range(globalState.recurringExpenses) :
          DeleteRecurringBtn(item, "expense", TRUE)
    \/ \E categoryValue \in CategoryNames(globalState), stream \in OneStream :
          handleRecurringFormSubmit(ValidFilling, categoryValue, stream)

SpecReferences == InitFrom(InitialStorage, MaxCategoryOps) /\ [][NextReferences]_vars

\* C27 (category references): as long as each form is submitted with a
\* category of the registry, the category of every planned expense, the
\* linkedCategory of every real expense and the category of every recurring
\* expense template is the name of a category of the registry.
CategoryReferences ==
    /\ \A monthKey \in DOMAIN monthlyData :
          /\ \A expense \in Range(monthlyData[monthKey].plannedExpenses) :
                expense.category \in CategoryNames(globalState)
          /\ \A expense \in Range(monthlyData[monthKey].realExpenses) :
                expense.linkedCategory \in CategoryNames(globalState)
    /\ \A template \in Range(globalState.recurringExpenses) :
          template.category \in CategoryNames(globalState)

\* a category was deleted while a planned expense of another month and a
\* template refer to the category that is left
CategoryReferencesWitness ==
    /\ last.op = "handleDeleteCategory"
    /\ last.outcome = "ok"
    /\ globalState.recurringExpenses # <<>>
    /\ \E monthKey \in DOMAIN monthlyData :
          /\ monthKey # uiState.selectedMonth
          /\ monthlyData[monthKey].plannedExpenses # <<>>

\* ------------------------------------------------- one instance per template
\* the recurringId of the instances of a ledger list, in the order of the list
RecurringIdsOf(list) ==
    [j \in 1..Len(filter(list, LAMBDA i : i.recurringId # Undefined)) |->
        filter(list, LAMBDA i : i.recurringId # Undefined)[j].recurringId]

IsInjective(ids) ==
    \A i, j \in 1..Len(ids) : ids[i] = ids[j] => i = j

\* each ledger list holds at most one instance per recurringId
OneInstancePerTemplate(md) ==
    \A monthKey \in DOMAIN md :
        \A type \in TransactionTypes :
            IsInjective(RecurringIdsOf(md[monthKey][ListOf(type)]))

\* the ids of the templates of each store differ
DistinctTemplateIds(gs) ==
    \A type \in TransactionTypes :
        IsInjective([j \in 1..Len(gs[StoreOf(type)]) |-> gs[StoreOf(type)][j].id])

\* the step creates a template under an id that a template of its type has
\* or had
ReusesTemplateId ==
    /\ last'.op = "handleRecurringFormSubmit"
    /\ last'.outcome = "added"
    /\ \/ last'.args.id \in TemplateIds(globalState, last'.args.type)
       \/ \E monthKey \in DOMAIN monthlyData :
             \E instance \in Range(monthlyData[monthKey][ListOf(last'.args.type)]) :
                instance.recurringId = last'.args.id

\* C28 (no duplicate propagation): the store starts without instances, and
\* as long as every template is created under an id no template of its type
\* had, no navigation and no creation, update or deletion of a template
\* gives a ledger list a second instance of the same recurringId.
NoDuplicatePropagation ==
    /\ \A monthKey \in DOMAIN monthlyData :
          \A type \in TransactionTypes :
             isInitialized => RecurringIdsOf(monthlyData[monthKey][ListOf(type)]) = <<>>
    /\ [][(/\ OneInstancePerTemplate(monthlyData)
           /\ DistinctTemplateIds(globalState)
           /\ ~ReusesTemplateId)
              => (OneInstancePerTemplate(monthlyData')
                     /\ DistinctTemplateIds(globalState'))]_vars

\* a template was updated while two months hold its instance
NoDuplicatePropagationWitness ==
    /\ last.op = "handleRecurringFormSubmit"
    /\ last.outcome = "updated"
    /\ OneInstancePerTemplate(monthlyData)
    /\ Cardinality({monthKey \in DOMAIN monthlyData :
                       \E instance \in Range(monthlyData[monthKey][ListOf(last.args.type)]) :
                          instance.recurringId = last.args.id}) >= 2

\* ------------------------------------------------ edits of real expenses
\* The real-expense form, the edit and cancel buttons of the list, month
\* navigation, and the recurring expense that gives each month a category
\* to link a real expense to.
TrackingFillings == {ValidFilling, [description |-> "Gym", amount |-> "-5"]}

NextTracking ==
    \/ OpenRecurringModal
    \/ CloseModal
    \/ \E stream \in OneStream :
          handleRecurringFormSubmit(ValidFilling, "Logement", stream)
    \/ \E direction \in {0 - 1, 1}, stream \in OneStream :
          NavigateMonth(direction, stream)
    \/ \E item \in Range(getCurrentRealExpenses) : EditRealExpenseBtn(item)
    \/ CancelRealExpenseEdit
    \/ \E filling \in TrackingFillings, linkedCategory \in RealExpenseCategoryOptions :
          handleAddRealExpense(filling, "2024-12-05", linkedCategory)

SpecTracking == InitFrom(InitialStorage, MaxUpdateOps) /\ [][NextTracking]_vars

\* C29 (real-expense edit): once a real expense is selected for editing, the
\* submission of the form with valid fields gives that record, and no other,
\* the submitted description, amount, date and linkedCategory, whichever
\* month is selected by then.
RealExpenseEditApplied ==
    [][(/\ last'.op = "handleAddRealExpense"
        /\ last'.outcome = "ok"
        /\ last'.args.editing)
          => \E monthKey \in DOMAIN monthlyData :
                \E j \in 1..Len(monthlyData[monthKey].realExpenses) :
                   /\ monthlyData[monthKey].realExpenses[j] = uiState.editingRealExpense
                   /\ monthlyData' =
                        [monthlyData EXCEPT ![monthKey].realExpenses[j] =
                            assign(@, last'.args.fields)]]_vars

\* ------------------------------------------------------ lists of a ledger
\* C30 (ledger well-formedness): once the page is initialized, whatever the
\* monthlyData blob held, every ledger has its three lists realIncome,
\* plannedExpenses and realExpenses.
LedgerWellFormed ==
    isInitialized =>
        \A monthKey \in DOMAIN monthlyData :
            {"realIncome", "plannedExpenses", "realExpenses"}
                \subseteq DOMAIN monthlyData[monthKey]

====
